---- MODULE Spec2Model ----
(***************************************************************************)
(* ProfitLift: context segmentation, frequent-itemset mining (FP-growth    *)
(* and Eclat), rule generation and the context-aware miner, as state       *)
(* machines over bounded inputs.                                           *)
(*                                                                         *)
(* Conventions.  A pandas DataFrame of frequent itemsets or of rules is a  *)
(* set of row records (its rows are pairwise distinct and the properties   *)
(* studied do not read the row order).  A float that the code obtains by   *)
(* dividing two counts is the exact rational <<numerator, denominator>>    *)
(* in lowest terms; floating-point rounding is not modelled.  A Python     *)
(* transaction (a list of item strings) is the set of its items: both      *)
(* miners read it only through membership.                                 *)
(***************************************************************************)
EXTENDS Integers, Sequences, FiniteSets, Bags, TLC

(***************************************************************************)
(* Bounds of the model.                                                    *)
(***************************************************************************)
MaxTransList == 3

Items == {"x", "y", "z"}

\* min_support / min_confidence values handed to the miners (rationals).
Thresholds == {<<0, 1>>, <<1, 3>>, <<1, 2>>, <<2, 3>>, <<1, 1>>}

(***************************************************************************)
(* Exact rationals standing for the floats of the code.                    *)
(***************************************************************************)
RECURSIVE GCD(_, _)
GCD(m, n) == IF n = 0 THEN m ELSE GCD(n, m % n)

Rat(n, d) == LET g == GCD(n, d) IN <<n \div g, d \div g>>

RatGeq(p, q) == p[1] * q[2] >= q[1] * p[2]

RatDiv(p, q) == Rat(p[1] * q[2], p[2] * q[1])

Range(f) == {f[i] : i \in DOMAIN f}

(***************************************************************************)
(* EclatMiner (app/mining/eclat.py).                                       *)
(***************************************************************************)
\* {item: set of transaction ids}, transaction ids counted from 0.
EclatMiner_to_vertical_format(transactions) ==
    [item \in UNION Range(transactions) |->
        {tid \in 0..(Len(transactions) - 1) : item \in transactions[tid + 1]}]

\* current_itemsets maps a key (an item, or a tuple of items; here the set of
\* the key's items) to its tid set.  The result maps itemsets to counts and is
\* the set of its [itemset, count] entries.
RECURSIVE EclatMiner_eclat(_, _)
EclatMiner_eclat(current_itemsets, min_support_count) ==
    LET keys == DOMAIN current_itemsets
        level == {[itemset |-> k, count |-> Cardinality(current_itemsets[k])] :
                    k \in {kk \in keys :
                             Cardinality(current_itemsets[kk]) >= min_support_count}}
        pairs == {p \in keys \X keys :
                    /\ p[1] # p[2]
                    /\ Cardinality(current_itemsets[p[1]] \cap current_itemsets[p[2]])
                          >= min_support_count}
        \* sub_itemsets = {new_itemset: intersection}: a dict of ONE entry
        sub(p) == (p[1] \cup p[2]) :>
                     (current_itemsets[p[1]] \cap current_itemsets[p[2]])
    IN  level \cup
        (IF Cardinality(keys) > 1
         THEN UNION {EclatMiner_eclat(sub(p), min_support_count) : p \in pairs}
         ELSE {})

EclatMiner_mine(transactions, min_support) ==
    LET vertical_db == EclatMiner_to_vertical_format(transactions)
        total_transactions == Len(transactions)
        \* int(min_support * total_transactions)
        min_support_count == (min_support[1] * total_transactions) \div min_support[2]
        frequent_keys == {item \in DOMAIN vertical_db :
                            Cardinality(vertical_db[item]) >= min_support_count}
        frequent_items == [k \in {{item} : item \in frequent_keys} |->
                              vertical_db[CHOOSE item \in k : TRUE]]
        frequent_itemsets == EclatMiner_eclat(frequent_items, min_support_count)
    IN  [raised |-> FALSE,
         itemsets |-> {[itemsets |-> e.itemset,
                        support |-> Rat(e.count, total_transactions)] :
                          e \in frequent_itemsets}]

EclatMiner_combinations(items, r) ==
    {c \in SUBSET items : Cardinality(c) = r}

EclatMiner_generate_rules(itemsets, min_confidence) ==
    LET rules_data ==
          UNION {
            UNION {
              {[antecedents |-> antecedent,
                consequents |-> row.itemsets \ antecedent,
                support     |-> row.support,
                confidence  |-> row.support,     \* "Approximation"
                lift        |-> <<1, 1>>] :      \* "Approximation"
                  antecedent \in EclatMiner_combinations(row.itemsets, i)} :
              i \in 1..(Cardinality(row.itemsets) - 1)} :
            row \in {rr \in itemsets : Cardinality(rr.itemsets) >= 2}}
    IN  {rule \in rules_data : RatGeq(rule.confidence, min_confidence)}

(***************************************************************************)
(* FPGrowthMiner (app/mining/fpgrowth.py), a wrapper of the mlxtend        *)
(* library: fpgrowth and association_rules are the library's functions,    *)
(* modelled by their contract.                                             *)
(***************************************************************************)
\* TransactionEncoder: one boolean column per item that occurs.
FPGrowthMiner_to_basket_matrix(transactions) ==
    [tid \in 1..Len(transactions) |->
        [item \in UNION Range(transactions) |-> item \in transactions[tid]]]

\* mlxtend fpgrowth(df, min_support, use_colnames=True): ValueError unless
\* min_support > 0; else every non-empty itemset whose support (fraction of
\* the rows holding all its items) is >= min_support.
fpgrowth(basket, min_support) ==
    LET rows    == DOMAIN basket
        columns == UNION {DOMAIN basket[t] : t \in rows}
        cnt(S)  == Cardinality({t \in rows : \A item \in S : basket[t][item]})
    IN  IF min_support[1] <= 0
        THEN [raised |-> TRUE, itemsets |-> {}]
        ELSE [raised |-> FALSE,
              itemsets |->
                {[itemsets |-> S, support |-> Rat(cnt(S), Cardinality(rows))] :
                   S \in {SS \in (SUBSET columns) \ {{}} :
                            cnt(SS) * min_support[2] >=
                               min_support[1] * Cardinality(rows)}}]

FPGrowthMiner_mine(transactions, min_support) ==
    fpgrowth(FPGrowthMiner_to_basket_matrix(transactions), min_support)

\* mlxtend association_rules(df, metric="confidence", min_threshold): every
\* itemset of size >= 2 split into antecedent and consequent, scored from the
\* supports found in df.
association_rules(itemsets, min_threshold) ==
    LET sup(S) == (CHOOSE row \in itemsets : row.itemsets = S).support
        rule(row, antecedent) ==
            LET consequent == row.itemsets \ antecedent
                confidence == RatDiv(row.support, sup(antecedent))
            IN  [antecedents |-> antecedent,
                 consequents |-> consequent,
                 support     |-> row.support,
                 confidence  |-> confidence,
                 lift        |-> RatDiv(confidence, sup(consequent))]
        candidates ==
          UNION {{rule(row, antecedent) :
                    antecedent \in (SUBSET row.itemsets) \ {{}, row.itemsets}} :
                 row \in {rr \in itemsets : Cardinality(rr.itemsets) >= 2}}
    IN  {r \in candidates : RatGeq(r.confidence, min_threshold)}

FPGrowthMiner_generate_rules(itemsets, min_confidence) ==
    IF itemsets = {} THEN {} ELSE association_rules(itemsets, min_confidence)

(***************************************************************************)
(* Optional values, Context and the transaction DataFrame.                 *)
(*                                                                         *)
(* An optional value is None or Some(v).  The transaction DataFrame is the *)
(* bag of its rows (a function from row records to their multiplicity):    *)
(* the code reads it by row filters, len(), unique() and groupby only.  A  *)
(* context column that is absent from the DataFrame and one that holds     *)
(* only missing values give the same segments, so both are the column of   *)
(* None.  The values of one column have one type, on which str() is        *)
(* one-to-one; a value stands for its str() image.                         *)
(***************************************************************************)
None == <<>>

Some(v) == <<v>>

notna(v) == v # None

Context(store_id, time_bin, weekday_weekend, quarter, festival_period) ==
    [store_id        |-> store_id,
     time_bin        |-> time_bin,
     weekday_weekend |-> weekday_weekend,
     quarter         |-> quarter,
     festival_period |-> festival_period]

Overall == Context(None, None, None, None, None)

len(df) == BagCardinality(df)

unique(df, col) == {r[col] : r \in DOMAIN df}

\* df[df[col] == v]
Where(df, col, v) == [r \in {rr \in DOMAIN df : rr[col] = v} |-> df[r]]

\* df[(df[col1] == v1) & (df[col2] == v2)]
Where2(df, col1, v1, col2, v2) ==
    [r \in {rr \in DOMAIN df : rr[col1] = v1 /\ rr[col2] = v2} |-> df[r]]

Max(a, b) == IF a >= b THEN a ELSE b

FestivalMinRows == 20

FestivalTimeMinRows == 15

(***************************************************************************)
(* ContextSegmenter (app/mining/context_segmenter.py).  segments is the    *)
(* dict Context -> DataFrame; an assignment segments[ctx] = df overrides.  *)
(***************************************************************************)
\* Variant: the row count compared with > instead of >=.
StoreSegments_Strict(transactions, min_rows) ==
    LET kept == {store \in unique(transactions, "store_id") :
                   /\ notna(store)
                   /\ len(Where(transactions, "store_id", store)) > min_rows}
    IN  [ctx \in {Context(store, None, None, None, None) : store \in kept} |->
            Where(transactions, "store_id", ctx.store_id)]

\* The entries one loop adds: ctx(v) -> df(v) for the values v that pass.
StoreSegments(transactions, min_rows) ==
    LET kept == {store \in unique(transactions, "store_id") :
                   /\ notna(store)
                   /\ len(Where(transactions, "store_id", store)) >= min_rows}
    IN  [ctx \in {Context(store, None, None, None, None) : store \in kept} |->
            Where(transactions, "store_id", ctx.store_id)]

TimeBinSegments(transactions, min_rows) ==
    LET kept == {time_bin \in unique(transactions, "context_time_bin") :
                   /\ notna(time_bin)
                   /\ len(Where(transactions, "context_time_bin", time_bin)) >= min_rows}
    IN  [ctx \in {Context(None, time_bin, None, None, None) : time_bin \in kept} |->
            Where(transactions, "context_time_bin", ctx.time_bin)]

WeekdaySegments(transactions, min_rows) ==
    LET kept == {weekday_type \in unique(transactions, "context_weekday_weekend") :
                   /\ notna(weekday_type)
                   /\ len(Where(transactions, "context_weekday_weekend", weekday_type))
                         >= min_rows}
    IN  [ctx \in {Context(None, None, weekday_type, None, None) : weekday_type \in kept} |->
            Where(transactions, "context_weekday_weekend", ctx.weekday_weekend)]

QuarterSegments(transactions, min_rows) ==
    LET kept == {quarter \in unique(transactions, "context_quarter") :
                   /\ notna(quarter)
                   /\ len(Where(transactions, "context_quarter", quarter)) >= min_rows}
    IN  [ctx \in {Context(None, None, None, quarter, None) : quarter \in kept} |->
            Where(transactions, "context_quarter", ctx.quarter)]

\* Variant: the quotient rounded up instead of down.
FestivalThreshold_Ceil(min_rows) == Max((min_rows + 1) \div 2, FestivalMinRows)

\* max(self.min_rows // 2, 20)
FestivalThreshold(min_rows) == Max(min_rows \div 2, FestivalMinRows)

FestivalSegments(transactions, min_rows) ==
    LET kept == {festival \in unique(transactions, "context_festival") :
                   /\ notna(festival) /\ festival # Some("")
                   /\ len(Where(transactions, "context_festival", festival))
                         >= FestivalThreshold(min_rows)}
    IN  [ctx \in {Context(None, None, None, None, festival) : festival \in kept} |->
            Where(transactions, "context_festival", ctx.festival_period)]

ContextSegmenter_add_single_dimension_segments(transactions, min_rows, segments) ==
    FestivalSegments(transactions, min_rows) @@
    QuarterSegments(transactions, min_rows) @@
    WeekdaySegments(transactions, min_rows) @@
    TimeBinSegments(transactions, min_rows) @@
    StoreSegments(transactions, min_rows) @@
    segments

\* Variant: the time-bin half of the row filter forgotten.
StoreTimeSegments_StoreOnly(transactions, min_rows) ==
    LET kept == {p \in unique(transactions, "store_id") \X
                       unique(transactions, "context_time_bin") :
                   /\ notna(p[1]) /\ notna(p[2])
                   /\ len(Where2(transactions, "store_id", p[1],
                                 "context_time_bin", p[2])) >= min_rows}
    IN  [ctx \in {Context(p[1], p[2], None, None, None) : p \in kept} |->
            Where(transactions, "store_id", ctx.store_id)]

StoreTimeSegments(transactions, min_rows) ==
    LET kept == {p \in unique(transactions, "store_id") \X
                       unique(transactions, "context_time_bin") :
                   /\ notna(p[1]) /\ notna(p[2])
                   /\ len(Where2(transactions, "store_id", p[1],
                                 "context_time_bin", p[2])) >= min_rows}
    IN  [ctx \in {Context(p[1], p[2], None, None, None) : p \in kept} |->
            Where2(transactions, "store_id", ctx.store_id,
                   "context_time_bin", ctx.time_bin)]

WeekdayTimeSegments(transactions, min_rows) ==
    LET kept == {p \in unique(transactions, "context_weekday_weekend") \X
                       unique(transactions, "context_time_bin") :
                   /\ notna(p[1]) /\ notna(p[2])
                   /\ len(Where2(transactions, "context_weekday_weekend", p[1],
                                 "context_time_bin", p[2])) >= min_rows}
    IN  [ctx \in {Context(None, p[2], p[1], None, None) : p \in kept} |->
            Where2(transactions, "context_weekday_weekend", ctx.weekday_weekend,
                   "context_time_bin", ctx.time_bin)]

\* max(self.min_rows // 3, 15)
FestivalTimeThreshold(min_rows) == Max(min_rows \div 3, FestivalTimeMinRows)

FestivalTimeSegments(transactions, min_rows) ==
    LET kept == {p \in unique(transactions, "context_festival") \X
                       unique(transactions, "context_time_bin") :
                   /\ notna(p[1]) /\ p[1] # Some("") /\ notna(p[2])
                   /\ len(Where2(transactions, "context_festival", p[1],
                                 "context_time_bin", p[2]))
                         >= FestivalTimeThreshold(min_rows)}
    IN  [ctx \in {Context(None, p[2], None, None, p[1]) : p \in kept} |->
            Where2(transactions, "context_festival", ctx.festival_period,
                   "context_time_bin", ctx.time_bin)]

StoreQuarterSegments(transactions, min_rows) ==
    LET kept == {p \in unique(transactions, "store_id") \X
                       unique(transactions, "context_quarter") :
                   /\ notna(p[1]) /\ notna(p[2])
                   /\ len(Where2(transactions, "store_id", p[1],
                                 "context_quarter", p[2])) >= min_rows}
    IN  [ctx \in {Context(p[1], None, None, p[2], None) : p \in kept} |->
            Where2(transactions, "store_id", ctx.store_id,
                   "context_quarter", ctx.quarter)]

ContextSegmenter_add_two_dimension_segments(transactions, min_rows, segments) ==
    StoreQuarterSegments(transactions, min_rows) @@
    FestivalTimeSegments(transactions, min_rows) @@
    WeekdayTimeSegments(transactions, min_rows) @@
    StoreTimeSegments(transactions, min_rows) @@
    segments

\* Variant: the Overall segment held to min_rows like every other segment.
ContextSegmenter_segment_OverallThreshold(transactions, min_rows, max_depth) ==
    LET level0 == IF len(transactions) >= min_rows
                  THEN Overall :> transactions ELSE <<>>
        level1 == IF max_depth >= 1
                  THEN ContextSegmenter_add_single_dimension_segments(
                           transactions, min_rows, level0)
                  ELSE level0
    IN  IF max_depth >= 2
        THEN ContextSegmenter_add_two_dimension_segments(transactions, min_rows, level1)
        ELSE level1

ContextSegmenter_segment(transactions, min_rows, max_depth) ==
    LET level0 == Overall :> transactions
        level1 == IF max_depth >= 1
                  THEN ContextSegmenter_add_single_dimension_segments(
                           transactions, min_rows, level0)
                  ELSE level0
    IN  IF max_depth >= 2
        THEN ContextSegmenter_add_two_dimension_segments(transactions, min_rows, level1)
        ELSE level1

(***************************************************************************)
(* ContextualRule (app/mining/context_types.py): a dataclass with eq=True  *)
(* and frozen=False.  The generated __eq__ compares the tuples of all nine *)
(* fields; the generated __hash__ is None, so hash(rule) raises TypeError. *)
(***************************************************************************)
ContextualRule(antecedent, consequent, support, confidence, lift, context) ==
    [antecedent      |-> antecedent,
     consequent      |-> consequent,
     support         |-> support,
     confidence      |-> confidence,
     lift            |-> lift,
     context         |-> context,
     profit_score    |-> None,
     diversity_score |-> None,
     overall_score   |-> None]

ContextualRule_fields(r) ==
    <<r.antecedent, r.consequent, r.support, r.confidence, r.lift, r.context,
      r.profit_score, r.diversity_score, r.overall_score>>

ContextualRule_triple(r) == <<r.antecedent, r.consequent, r.context>>

\* Variant: equality by the (antecedent, consequent, context) triple.
ContextualRule_eq_ByTriple(r1, r2) ==
    ContextualRule_triple(r1) = ContextualRule_triple(r2)

ContextualRule_eq(r1, r2) == ContextualRule_fields(r1) = ContextualRule_fields(r2)

ContextualRule_hash(r) == [raised |-> TRUE, error |-> "TypeError"]

(***************************************************************************)
(* ContextAwareMiner (app/mining/context_aware_miner.py).                  *)
(***************************************************************************)
MinTransactionsToMine == 5

RECURSIVE SetToSeq(_)
SetToSeq(S) ==
    IF S = {} THEN <<>>
    ELSE LET e == CHOOSE x \in S : TRUE IN <<e>> \o SetToSeq(S \ {e})

\* One list of clean item strings per transaction id, in groupby's key order
\* (an order the miners do not read); transactions left without a clean item
\* are not added.
ContextAwareMiner_df_to_transactions(df) ==
    LET clean_items(tid) ==
            {r.item_id[1] : r \in {rr \in DOMAIN df :
                                     rr.transaction_id = tid /\ notna(rr.item_id)}}
        grouped == SetToSeq({tid \in unique(df, "transaction_id") :
                               clean_items(tid) # {}})
    IN  [i \in 1..Len(grouped) |-> clean_items(grouped[i])]

\* Variant: a segment of exactly five transactions skipped too.
ContextAwareMiner_mine_segment_OffByOne(context, segment_df, min_support, min_confidence) ==
    LET trans_list == ContextAwareMiner_df_to_transactions(segment_df)
        itemsets   == FPGrowthMiner_mine(trans_list, min_support)
        rules_df   == FPGrowthMiner_generate_rules(itemsets.itemsets, min_confidence)
    IN  IF Len(trans_list) <= MinTransactionsToMine THEN {}
        ELSE IF itemsets.raised THEN {}
        ELSE IF itemsets.itemsets = {} THEN {}
        ELSE {ContextualRule(rule.antecedents, rule.consequents, rule.support,
                             rule.confidence, rule.lift, context) : rule \in rules_df}

\* The body of the loop over segments: the rules one segment contributes.
ContextAwareMiner_mine_segment(context, segment_df, min_support, min_confidence) ==
    LET trans_list == ContextAwareMiner_df_to_transactions(segment_df)
        itemsets   == FPGrowthMiner_mine(trans_list, min_support)
        rules_df   == FPGrowthMiner_generate_rules(itemsets.itemsets, min_confidence)
    IN  IF Len(trans_list) < MinTransactionsToMine THEN {}       \* skip
        ELSE IF itemsets.raised THEN {}                          \* except: continue
        ELSE IF itemsets.itemsets = {} THEN {}
        ELSE {ContextualRule(rule.antecedents, rule.consequents, rule.support,
                             rule.confidence, rule.lift, context) : rule \in rules_df}

\* Variant: every segment mined from the whole DataFrame.
ContextAwareMiner_mine_all_contexts_WholeFrame(transactions, min_support, min_confidence, min_rows, max_depth) ==
    LET segments == ContextSegmenter_segment(transactions, min_rows, max_depth)
    IN  UNION {ContextAwareMiner_mine_segment(context, transactions,
                                              min_support, min_confidence) :
                 context \in DOMAIN segments}

\* all_rules is the list of the rules of all segments; it is the set of its
\* elements (no rule occurs twice in it).
ContextAwareMiner_mine_all_contexts(transactions, min_support, min_confidence, min_rows, max_depth) ==
    LET segments == ContextSegmenter_segment(transactions, min_rows, max_depth)
    IN  UNION {ContextAwareMiner_mine_segment(context, segments[context],
                                              min_support, min_confidence) :
                 context \in DOMAIN segments}

(***************************************************************************)
(* mine_all_contexts when a call made for one segment raises.  A Raising   *)
(* record names the call that raises for that segment: fp_growth.mine,     *)
(* fp_growth.generate_rules, or the construction of the ContextualRule of  *)
(* row number `row' of rules_df.                                           *)
(***************************************************************************)
NoRaise == [stage |-> "none", row |-> 0]

Raises == {[stage |-> "mine", row |-> 0], [stage |-> "generate_rules", row |-> 0],
           [stage |-> "convert", row |-> 1], [stage |-> "convert", row |-> 2]}

\* The loop body with its try/except.  Rules are appended to all_rules one
\* by one inside the try: those appended before the raise stay in the list.
\* `raised' tells whether the except branch was taken.
ContextAwareMiner_mine_segment_raising(context, segment_df, min_support, min_confidence, raising) ==
    LET trans_list == ContextAwareMiner_df_to_transactions(segment_df)
        itemsets   == FPGrowthMiner_mine(trans_list, min_support)
        rules_df   == FPGrowthMiner_generate_rules(itemsets.itemsets, min_confidence)
        rows       == SetToSeq(rules_df)
        converted(n) ==
            {ContextualRule(rows[i].antecedents, rows[i].consequents, rows[i].support,
                            rows[i].confidence, rows[i].lift, context) : i \in 1..n}
    IN  IF Len(trans_list) < MinTransactionsToMine
          THEN [rules |-> {}, raised |-> FALSE]
        ELSE IF raising.stage = "mine" \/ itemsets.raised
          THEN [rules |-> {}, raised |-> TRUE]
        ELSE IF itemsets.itemsets = {}
          THEN [rules |-> {}, raised |-> FALSE]
        ELSE IF raising.stage = "generate_rules"
          THEN [rules |-> {}, raised |-> TRUE]
        ELSE IF rules_df = {}
          THEN [rules |-> {}, raised |-> FALSE]
        ELSE IF raising.stage = "convert" /\ raising.row <= Len(rows)
          THEN [rules |-> converted(raising.row - 1), raised |-> TRUE]
        ELSE [rules |-> converted(Len(rows)), raised |-> FALSE]

\* mine_all_contexts when the calls made for segment `failing' raise as
\* `raising' says: the returned rules and the contexts whose except branch
\* was taken.
ContextAwareMiner_mine_all_contexts_raising(transactions, min_support, min_confidence, min_rows, max_depth, failing, raising) ==
    LET segments == ContextSegmenter_segment(transactions, min_rows, max_depth)
        body(context) ==
            ContextAwareMiner_mine_segment_raising(
                context, segments[context], min_support, min_confidence,
                IF context = failing THEN raising ELSE NoRaise)
    IN  [rules  |-> UNION {body(context).rules : context \in DOMAIN segments},
         raised |-> {context \in DOMAIN segments : body(context).raised}]

(***************************************************************************)
(* Scoring (app/score).  A transaction DataFrame read for prices is the    *)
(* sequence of its rows; a missing margin_pct (NaN) is None.  A list of    *)
(* rules is a sequence.  Floats are exact rationals.                       *)
(***************************************************************************)
\* A local variable: the value is computed once, then read by the body.
Bind(value, body(_)) == CHOOSE result \in {body(v) : v \in {value}} : TRUE

RatAdd(p, q) == Rat(p[1] * q[2] + q[1] * p[2], p[2] * q[2])

RatSub(p, q) == Rat(p[1] * q[2] - q[1] * p[2], p[2] * q[2])

RatMul(p, q) == Rat(p[1] * q[1], p[2] * q[2])

RatLt(p, q) == p[1] * q[2] < q[1] * p[2]

RatMin(p, q) == IF RatLt(q, p) THEN q ELSE p

RatMax(p, q) == IF RatLt(p, q) THEN q ELSE p

RECURSIVE RatSum(_)
RatSum(s) == IF s = <<>> THEN <<0, 1>> ELSE RatAdd(s[1], RatSum(Tail(s)))

\* Series.mean() of a non-empty column without NaN.
Mean(s) == RatDiv(RatSum(s), <<Len(s), 1>>)

RECURSIVE SeqMin(_)
SeqMin(s) == IF Len(s) = 1 THEN s[1] ELSE RatMin(s[1], SeqMin(Tail(s)))

RECURSIVE SeqMax(_)
SeqMax(s) == IF Len(s) = 1 THEN s[1] ELSE RatMax(s[1], SeqMax(Tail(s)))

default_margin_pct == <<1, 4>>

\* Variant: missing margins skipped by the mean instead of filled.
ProfitCalculator_get_margin_SkipMissing(item_data) ==
    LET present == SelectSeq(item_data, LAMBDA r : notna(r.margin_pct))
    IN  IF present = <<>> THEN default_margin_pct
        ELSE Mean([i \in 1..Len(present) |-> present[i].margin_pct[1]])

\* margin_pct with its missing values filled by the default, then averaged
\* (a frame without the column gives the default, as a column of NaN does).
ProfitCalculator_get_margin(item_data) ==
    Mean([i \in 1..Len(item_data) |->
            IF notna(item_data[i].margin_pct) THEN item_data[i].margin_pct[1]
            ELSE default_margin_pct])

ProfitCalculator_calculate_rule_profit(rule, transactions) ==
    LET consequent_data ==
            SelectSeq(transactions, LAMBDA r : r.item_id \in rule.consequent)
        avg_price  == Mean([i \in 1..Len(consequent_data) |-> consequent_data[i].price])
        avg_margin == ProfitCalculator_get_margin(consequent_data)
    IN  IF consequent_data = <<>> THEN <<0, 1>>
        ELSE RatMul(RatMul(avg_price, avg_margin), rule.confidence)

\* Variant: every rule of the list counted, whatever its context.
DiversityScorer_calculate_diversity_AllContexts(rule, context_rules) ==
    LET rule_items == rule.antecedent \union rule.consequent
        item_counts(item) ==
            Cardinality({i \in 1..Len(context_rules) :
               item \in context_rules[i].antecedent \union context_rules[i].consequent})
        frequencies == [i \in 1..Cardinality(rule_items) |->
            Rat(item_counts(SetToSeq(rule_items)[i]), Len(context_rules))]
        diversity == RatSub(<<1, 1>>, Mean(frequencies))
    IN  IF Len(context_rules) <= 1 THEN <<1, 1>>
        ELSE IF rule_items = {} THEN <<1, 1>>
        ELSE RatMax(<<0, 1>>, RatMin(<<1, 1>>, diversity))

DiversityScorer_calculate_diversity(rule, context_rules) ==
    LET same_context_rules ==
            SelectSeq(context_rules, LAMBDA r : r.context = rule.context)
        rule_items == rule.antecedent \union rule.consequent
        item_counts(item) ==
            Cardinality({i \in 1..Len(same_context_rules) :
               item \in same_context_rules[i].antecedent
                          \union same_context_rules[i].consequent})
        frequencies == [i \in 1..Cardinality(rule_items) |->
            Rat(item_counts(SetToSeq(rule_items)[i]), Len(same_context_rules))]
        diversity == RatSub(<<1, 1>>, Mean(frequencies))
    IN  IF Len(same_context_rules) <= 1 THEN <<1, 1>>
        ELSE IF rule_items = {} THEN <<1, 1>>
        ELSE RatMax(<<0, 1>>, RatMin(<<1, 1>>, diversity))

\* str.title() on the context values the model uses.
Title(s) ==
    CASE s = "morning" -> "Morning"
      [] s = "evening" -> "Evening"
      [] s = "weekday" -> "Weekday"
      [] s = "weekend" -> "Weekend"
      [] s = "diwali"  -> "Diwali"
      [] OTHER -> s

\* Python truthiness of an optional string field: None and "" are false.
Truthy(field) == field # None /\ field[1] # ""

\* Python truthiness of an optional integer field: None and 0 are false.
TruthyInt(field) == field # None /\ field[1] # 0

\* The decimal text of a quarter number, as an f-string formats it.
IntText(n) ==
    CASE n = 0 -> "0" [] n = 1 -> "1" [] n = 2 -> "2" [] n = 3 -> "3" [] n = 4 -> "4"

\* One part of the text: a literal prefix followed by a field's text.
Part(prefix, text) == [prefix |-> prefix, text |-> text]

\* Variant: the quarter is shown next to a festival.
Context_str_QuarterAlways(self) ==
    LET parts ==
            (IF Truthy(self.store_id) THEN <<Part("Store ", self.store_id[1])>> ELSE <<>>)
            \o (IF Truthy(self.festival_period)
                THEN <<Part("", Title(self.festival_period[1]))>> ELSE <<>>)
            \o (IF Truthy(self.time_bin)
                THEN <<Part("", Title(self.time_bin[1]))>> ELSE <<>>)
            \o (IF Truthy(self.weekday_weekend)
                THEN <<Part("", Title(self.weekday_weekend[1]))>> ELSE <<>>)
            \o (IF TruthyInt(self.quarter)
                THEN <<Part("Q", IntText(self.quarter[1]))>> ELSE <<>>)
    IN  IF parts # <<>> THEN parts ELSE <<Part("", "Overall")>>

\* Context.__str__: the parts that " + " joins, as a sequence; "Overall"
\* when there is no part.
Context_str(self) ==
    LET parts ==
            (IF Truthy(self.store_id) THEN <<Part("Store ", self.store_id[1])>> ELSE <<>>)
            \o (IF Truthy(self.festival_period)
                THEN <<Part("", Title(self.festival_period[1]))>> ELSE <<>>)
            \o (IF Truthy(self.time_bin)
                THEN <<Part("", Title(self.time_bin[1]))>> ELSE <<>>)
            \o (IF Truthy(self.weekday_weekend)
                THEN <<Part("", Title(self.weekday_weekend[1]))>> ELSE <<>>)
            \o (IF TruthyInt(self.quarter) /\ ~Truthy(self.festival_period)
                THEN <<Part("Q", IntText(self.quarter[1]))>> ELSE <<>>)
    IN  IF parts # <<>> THEN parts ELSE <<Part("", "Overall")>>

\* The default weights of MultiObjectiveScorer.
MultiObjectiveScorer_weights ==
    [lift |-> <<3, 10>>, profit_margin |-> <<2, 5>>,
     diversity |-> <<3, 20>>, confidence |-> <<3, 20>>]

\* The keys of a dict filled in this order: the first occurrences, in order.
dict_keys(s) ==
    LET firsts == {i \in 1..Len(s) : \A j \in 1..(i - 1) : s[j] # s[i]}
    IN  [k \in 1..Cardinality(firsts) |->
            s[CHOOSE i \in firsts : Cardinality({j \in firsts : j < i}) = k - 1]]

RECURSIVE list_extend_all(_)
list_extend_all(ss) ==
    IF ss = <<>> THEN <<>> ELSE ss[1] \o list_extend_all(Tail(ss))

\* Variant: elements with equal keys end in the reverse of their order.
list_sort_reverse_Unstable(s, key) ==
    LET place(i) == Cardinality({j \in 1..Len(s) : RatLt(key[s[i]], key[s[j]])})
                    + Cardinality({j \in (i + 1)..Len(s) : key[s[j]] = key[s[i]]}) + 1
    IN  [p \in 1..Len(s) |-> s[CHOOSE i \in 1..Len(s) : place(i) = p]]

\* list.sort(key=..., reverse=True): descending, and stable.  The element
\* at index i lands after the elements of larger key and after the elements
\* of equal key that precede it.
list_sort_reverse(s, key) ==
    LET place(i) == Cardinality({j \in 1..Len(s) : RatLt(key[s[i]], key[s[j]])})
                    + Cardinality({j \in 1..(i - 1) : key[s[j]] = key[s[i]]}) + 1
    IN  [p \in 1..Len(s) |-> s[CHOOSE i \in 1..Len(s) : place(i) = p]]

(***************************************************************************)
(* MultiObjectiveScorer.score_rules.  The rules are objects: `heap' maps   *)
(* an object to its ContextualRule fields and `rules' is the list of the   *)
(* objects.  score_rules writes the three scores into the objects and      *)
(* returns a new list of the same objects.                                 *)
(***************************************************************************)
\* context_groups[str(rule.context)] for the rule object o.
MultiObjectiveScorer_ctx_rules(heap, rules, o) ==
    SelectSeq(rules, LAMBDA x : Context_str(heap[x].context) = Context_str(heap[o].context))

\* Variant: the minimum is not subtracted.
MultiObjectiveScorer_normalize_NoShift(x, vals) ==
    Bind(<<SeqMin(vals), SeqMax(vals)>>, LAMBDA m :
         RatDiv(x, IF m[2] # m[1] THEN RatSub(m[2], m[1]) ELSE <<1, 1>>))

\* (x - min) / range of one context group, the range defaulting to 1.0
\* when all values of the group are equal.
MultiObjectiveScorer_normalize(x, vals) ==
    Bind(<<SeqMin(vals), SeqMax(vals)>>, LAMBDA m :
         RatDiv(RatSub(x, m[1]),
                IF m[2] # m[1] THEN RatSub(m[2], m[1]) ELSE <<1, 1>>))

MultiObjectiveScorer_norm_lift(heap, rules, o) ==
    Bind(MultiObjectiveScorer_ctx_rules(heap, rules, o), LAMBDA ctx_rules :
    Bind([i \in 1..Len(ctx_rules) |-> heap[ctx_rules[i]].lift], LAMBDA lift_vals :
         MultiObjectiveScorer_normalize(heap[o].lift, lift_vals)))

MultiObjectiveScorer_norm_profit(heap, rules, transactions, o) ==
    Bind(MultiObjectiveScorer_ctx_rules(heap, rules, o), LAMBDA ctx_rules :
    Bind([i \in 1..Len(ctx_rules) |->
            ProfitCalculator_calculate_rule_profit(heap[ctx_rules[i]], transactions)],
         LAMBDA profit_vals :
         MultiObjectiveScorer_normalize(
             ProfitCalculator_calculate_rule_profit(heap[o], transactions),
             profit_vals)))

MultiObjectiveScorer_diversity(heap, rules, o) ==
    LET ctx_rules == MultiObjectiveScorer_ctx_rules(heap, rules, o)
    IN  DiversityScorer_calculate_diversity(
            heap[o], [i \in 1..Len(ctx_rules) |-> heap[ctx_rules[i]]])

MultiObjectiveScorer_overall_score(heap, rules, transactions, o) ==
    LET w == MultiObjectiveScorer_weights
    IN  RatAdd(RatAdd(RatMul(w.lift, MultiObjectiveScorer_norm_lift(heap, rules, o)),
                      RatMul(w.profit_margin,
                             MultiObjectiveScorer_norm_profit(heap, rules, transactions, o))),
               RatAdd(RatMul(w.diversity, MultiObjectiveScorer_diversity(heap, rules, o)),
                      RatMul(w.confidence, heap[o].confidence)))

MultiObjectiveScorer_score_rules(heap, rules, transactions) ==
    \* context_groups: the keys in first-occurrence order, the rules of each
    Bind(dict_keys([i \in 1..Len(rules) |-> Context_str(heap[rules[i]].context)]),
         LAMBDA ctx_keys :
    Bind([k \in 1..Len(ctx_keys) |->
            SelectSeq(rules, LAMBDA x : Context_str(heap[x].context) = ctx_keys[k])],
         LAMBDA context_groups :
    Bind([o \in Range(rules) |->
            CHOOSE k \in 1..Len(ctx_keys) : Context_str(heap[o].context) = ctx_keys[k]],
         LAMBDA group_of :
    \* rule.profit_score = calculate_rule_profit(rule, transactions)
    Bind([o \in Range(rules) |->
            ProfitCalculator_calculate_rule_profit(heap[o], transactions)],
         LAMBDA profit_score :
    \* rule.diversity_score = calculate_diversity(rule, ctx_rules)
    Bind([k \in 1..Len(ctx_keys) |->
            [i \in 1..Len(context_groups[k]) |-> heap[context_groups[k][i]]]],
         LAMBDA ctx_rules :
    Bind([o \in Range(rules) |->
            DiversityScorer_calculate_diversity(heap[o], ctx_rules[group_of[o]])],
         LAMBDA diversity_score :
    Bind([k \in 1..Len(ctx_keys) |->
            [i \in 1..Len(context_groups[k]) |-> heap[context_groups[k][i]].lift]],
         LAMBDA lift_vals :
    Bind([k \in 1..Len(ctx_keys) |->
            [i \in 1..Len(context_groups[k]) |-> profit_score[context_groups[k][i]]]],
         LAMBDA profit_vals :
    Bind([o \in Range(rules) |->
            RatAdd(RatAdd(RatMul(MultiObjectiveScorer_weights.lift,
                                 MultiObjectiveScorer_normalize(
                                     heap[o].lift, lift_vals[group_of[o]])),
                          RatMul(MultiObjectiveScorer_weights.profit_margin,
                                 MultiObjectiveScorer_normalize(
                                     profit_score[o], profit_vals[group_of[o]]))),
                   RatAdd(RatMul(MultiObjectiveScorer_weights.diversity, diversity_score[o]),
                          RatMul(MultiObjectiveScorer_weights.confidence,
                                 heap[o].confidence)))],
         LAMBDA overall_score :
    \* the objects once every group is scored, then the sort on their scores
    Bind([o \in DOMAIN heap |->
            IF o \in Range(rules)
            THEN [heap[o] EXCEPT !.profit_score    = Some(profit_score[o]),
                                 !.diversity_score = Some(diversity_score[o]),
                                 !.overall_score   = Some(overall_score[o])]
            ELSE heap[o]],
         LAMBDA scored :
         [heap |-> scored,
          scored_rules |-> list_sort_reverse(list_extend_all(context_groups),
                                             overall_score)]))))))))))

(***************************************************************************)
(* Causal estimation (app/causal).  The transaction DataFrame is the       *)
(* sequence of its rows (transaction_id, item_id, price, margin_pct);      *)
(* transaction ids are integers.  A feature table is the sequence of its   *)
(* rows, one per transaction, in groupby's key order.  The state of        *)
(* numpy's global generator is "unseeded", "seed42" (just seeded with 42)  *)
(* or "drawn" (numbers were drawn since).                                  *)
(***************************************************************************)
\* Series.unique(): the values in order of first appearance.
Series_unique(s) == dict_keys(s)

\* The rows of df whose transaction_id is in ids, in row order.
RowsOfTransactions(df, ids) == SelectSeq(df, LAMBDA r : r.transaction_id \in ids)

\* np.random.seed(42); np.random.permutation(n) for n = 1..8 (MT19937 with
\* the legacy seeding and the legacy shuffle; n = 5 and n = 10 agree with
\* the published values [1 4 2 0 3] and [8 1 5 0 7 2 9 4 3 6]).
Seed42Permutation ==
    << <<0>>, <<1, 0>>, <<0, 1, 2>>, <<1, 3, 0, 2>>, <<1, 4, 2, 0, 3>>,
       <<0, 1, 5, 2, 4, 3>>, <<0, 1, 5, 2, 4, 3, 6>>, <<1, 5, 0, 7, 2, 4, 3, 6>> >>

\* np.random.shuffle(x) from generator state `state': the order right after
\* seed(42) is the tabulated one; from another state it is another order
\* (a rotation stands for the one after earlier draws, the reversal for the
\* one of a generator never seeded).
np_random_shuffle(state, x) ==
    IF state = "seed42" /\ Len(x) \in DOMAIN Seed42Permutation
    THEN [i \in 1..Len(x) |-> x[Seed42Permutation[Len(x)][i] + 1]]
    ELSE IF state = "drawn"
    THEN [i \in 1..Len(x) |-> x[(i % Len(x)) + 1]]
    ELSE [i \in 1..Len(x) |-> x[Len(x) + 1 - i]]

TreatmentSimulator_find_transactions_with_items(transactions, items) ==
    Bind(SelectSeq(transactions, LAMBDA r : r.item_id \in items), LAMBDA with_items :
    Bind({with_items[i].transaction_id : i \in 1..Len(with_items)}, LAMBDA matching_trans :
         RowsOfTransactions(transactions, matching_trans)))

\* Variant: the generator is not seeded before the shuffle.
TreatmentSimulator_split_treatment_group_NoSeed(np_random, treatment_transactions) ==
    Bind(Series_unique([i \in 1..Len(treatment_transactions) |->
                          treatment_transactions[i].transaction_id]), LAMBDA ids :
    Bind(np_random_shuffle(np_random, ids), LAMBDA trans_ids :
    Bind((7 * Len(trans_ids)) \div 10, LAMBDA split_idx :
         [treatment_group |->
              RowsOfTransactions(treatment_transactions,
                                 {trans_ids[i] : i \in 1..split_idx}),
          control_from_treatment |->
              RowsOfTransactions(treatment_transactions,
                                 {trans_ids[i] : i \in (split_idx + 1)..Len(trans_ids)}),
          np_random |-> "drawn"])))

\* seed(random_state), shuffle of the transaction ids, 70/30 split.
\* int(n * 0.7) is floor(7n / 10) for the n of the model.
TreatmentSimulator_split_treatment_group(np_random, treatment_transactions) ==
    Bind(Series_unique([i \in 1..Len(treatment_transactions) |->
                          treatment_transactions[i].transaction_id]), LAMBDA ids :
    Bind(np_random_shuffle("seed42", ids), LAMBDA trans_ids :
    Bind((7 * Len(trans_ids)) \div 10, LAMBDA split_idx :
         [treatment_group |->
              RowsOfTransactions(treatment_transactions,
                                 {trans_ids[i] : i \in 1..split_idx}),
          control_from_treatment |->
              RowsOfTransactions(treatment_transactions,
                                 {trans_ids[i] : i \in (split_idx + 1)..Len(trans_ids)}),
          np_random |-> "drawn"])))

\* groupby('transaction_id')['item_id'].count() of one transaction.
BasketSize(df, tid) == Len(SelectSeq(df, LAMBDA r : r.transaction_id = tid))

\* Variant: the antecedent transactions are not set aside before matching.
TreatmentSimulator_create_control_group_AllTransactions(all_transactions, treatment_transactions) ==
    Bind({treatment_transactions[i].transaction_id :
            i \in 1..Len(treatment_transactions)}, LAMBDA treatment_ids :
    Bind({all_transactions[i].transaction_id : i \in 1..Len(all_transactions)},
         LAMBDA other_ids :
    \* the mean basket size of the antecedent transactions
    Bind(Rat(Len(treatment_transactions), Cardinality(treatment_ids)),
         LAMBDA avg_basket_size :
    \* size_tolerance = max(1, avg_basket_size * 0.5)
    Bind(RatMax(<<1, 1>>, RatMul(avg_basket_size, <<1, 2>>)), LAMBDA size_tolerance :
    Bind({tid \in other_ids :
            /\ RatGeq(<<BasketSize(all_transactions, tid), 1>>,
                      RatSub(avg_basket_size, size_tolerance))
            /\ RatGeq(RatAdd(avg_basket_size, size_tolerance),
                      <<BasketSize(all_transactions, tid), 1>>)}, LAMBDA matched_control :
         IF other_ids = {} THEN <<>>
         ELSE RowsOfTransactions(all_transactions, matched_control))))))

\* The transactions without antecedent whose basket size is within
\* max(1, 50%) of the mean basket size of the antecedent transactions.
TreatmentSimulator_create_control_group(all_transactions, treatment_transactions) ==
    Bind({treatment_transactions[i].transaction_id :
            i \in 1..Len(treatment_transactions)}, LAMBDA treatment_ids :
    Bind({all_transactions[i].transaction_id : i \in 1..Len(all_transactions)}
            \ treatment_ids, LAMBDA other_ids :
    \* the mean basket size of the antecedent transactions
    Bind(Rat(Len(treatment_transactions), Cardinality(treatment_ids)),
         LAMBDA avg_basket_size :
    \* size_tolerance = max(1, avg_basket_size * 0.5)
    Bind(RatMax(<<1, 1>>, RatMul(avg_basket_size, <<1, 2>>)), LAMBDA size_tolerance :
    Bind({tid \in other_ids :
            /\ RatGeq(<<BasketSize(all_transactions, tid), 1>>,
                      RatSub(avg_basket_size, size_tolerance))
            /\ RatGeq(RatAdd(avg_basket_size, size_tolerance),
                      <<BasketSize(all_transactions, tid), 1>>)}, LAMBDA matched_control :
         IF other_ids = {} THEN <<>>
         ELSE RowsOfTransactions(all_transactions, matched_control))))))

\* One row per transaction, in ascending transaction id: basket size,
\* outcome (a consequent item is in the basket) and mean price.
TreatmentSimulator_extract_features(transactions, rule) ==
    Bind({transactions[i].transaction_id : i \in 1..Len(transactions)}, LAMBDA ids :
         [k \in 1..Cardinality(ids) |->
            Bind(CHOOSE t \in ids : Cardinality({u \in ids : u < t}) = k - 1, LAMBDA tid :
            Bind(SelectSeq(transactions, LAMBDA r : r.transaction_id = tid), LAMBDA group :
                 [transaction_id |-> tid,
                  basket_size |-> Len(group),
                  outcome |-> IF \E i \in 1..Len(group) :
                                    group[i].item_id \in rule.consequent
                              THEN 1 ELSE 0,
                  avg_price |-> Mean([i \in 1..Len(group) |-> group[i].price])]))])

\* The faults a call can meet: an exception inside simulate_experiment, in
\* TLearner.fit, in the rate computation, or in the bootstrap.
Faults == {"none", "simulate", "fit", "rates", "ci"}

EmptyExperiment(np_random) ==
    [control_features |-> <<>>, treatment_features |-> <<>>, np_random |-> np_random,
     trans_with_antecedent |-> <<>>, treatment_group |-> <<>>, all_control |-> <<>>]

\* simulate_experiment: the two feature tables, the generator state it
\* leaves, and the local pools it built on the way.
TreatmentSimulator_simulate_experiment(np_random, transactions, rule, fault) ==
    IF fault = "simulate" THEN EmptyExperiment(np_random)
    ELSE
    Bind(TreatmentSimulator_find_transactions_with_items(transactions, rule.antecedent),
         LAMBDA trans_with_antecedent :
    IF Len(trans_with_antecedent) < 10
    THEN [EmptyExperiment(np_random) EXCEPT !.trans_with_antecedent = trans_with_antecedent]
    ELSE
    Bind(TreatmentSimulator_split_treatment_group(np_random, trans_with_antecedent),
         LAMBDA split :
    Bind(TreatmentSimulator_create_control_group(transactions, trans_with_antecedent),
         LAMBDA control_transactions :
    Bind(IF control_transactions = <<>> THEN split.control_from_treatment
         ELSE control_transactions \o split.control_from_treatment,
         LAMBDA all_control :
    IF Len(all_control) < 3 \/ Len(split.treatment_group) < 3
    THEN [EmptyExperiment(split.np_random) EXCEPT
             !.trans_with_antecedent = trans_with_antecedent,
             !.treatment_group = split.treatment_group,
             !.all_control = all_control]
    ELSE [control_features |-> TreatmentSimulator_extract_features(all_control, rule),
          treatment_features |->
              TreatmentSimulator_extract_features(split.treatment_group, rule),
          np_random |-> split.np_random,
          trans_with_antecedent |-> trans_with_antecedent,
          treatment_group |-> split.treatment_group,
          all_control |-> all_control]))))

(***************************************************************************)
(* TLearner (app/causal/t_learner.py).  A model is "unfitted" or "fitted". *)
(***************************************************************************)
TLearner_init ==
    [control_model |-> "unfitted", treatment_model |-> "unfitted", is_fitted |-> FALSE]

\* Variant: a failing fit leaves is_fitted as it was.
TLearner_fit_KeepsFlag(self, fails) ==
    IF fails = "control" THEN [learner |-> self, raised |-> TRUE]
    ELSE IF fails = "treatment"
    THEN [learner |-> [self EXCEPT !.control_model = "fitted"], raised |-> TRUE]
    ELSE [learner |-> [control_model |-> "fitted", treatment_model |-> "fitted",
                       is_fitted |-> TRUE],
          raised |-> FALSE]

\* fit: the control model is fitted first, then the treatment model; an
\* exception in either clears is_fitted and is raised again.
TLearner_fit(self, fails) ==
    IF fails = "control"
    THEN [learner |-> [self EXCEPT !.is_fitted = FALSE], raised |-> TRUE]
    ELSE IF fails = "treatment"
    THEN [learner |-> [self EXCEPT !.control_model = "fitted", !.is_fitted = FALSE],
          raised |-> TRUE]
    ELSE [learner |-> [control_model |-> "fitted", treatment_model |-> "fitted",
                       is_fitted |-> TRUE],
          raised |-> FALSE]

\* predict_uplift, predict_treatment_probability, predict_control_probability:
\* ValueError when is_fitted is false; otherwise the prediction, or the
\* exception predict_proba(X)[:, 1] raises (IndexError when the model saw a
\* single class).
TLearner_predict(self, method, proba_raises) ==
    IF ~self.is_fitted THEN "ValueError"
    ELSE IF proba_raises THEN "IndexError"
    ELSE "prediction"

(***************************************************************************)
(* CausalEstimator (app/causal/causal_estimator.py)                        *)
(***************************************************************************)
Zero == <<0, 1>>

UpliftResult(incremental_attach_rate, incremental_revenue, incremental_margin, control_rate, treatment_rate, confidence_interval, sample_size) ==
    [incremental_attach_rate |-> incremental_attach_rate,
     incremental_revenue |-> incremental_revenue,
     incremental_margin |-> incremental_margin,
     control_rate |-> control_rate,
     treatment_rate |-> treatment_rate,
     confidence_interval |-> confidence_interval,
     sample_size |-> sample_size]

\* Variant: an exception in the bootstrap leaves the function.
CausalEstimator_calculate_confidence_interval_Propagates(np_random, y_control, y_treatment, fault) ==
    IF fault = "ci"
    THEN [interval |-> <<Zero, Zero>>, np_random |-> "seed42", raised |-> TRUE]
    ELSE [interval |-> [bootstrap |-> "seed42", y_control |-> y_control,
                        y_treatment |-> y_treatment],
          np_random |-> "drawn", raised |-> FALSE]

\* The bootstrap interval: seed(42), then 20 resamples of both outcome
\* arrays; its value is the term of what it is computed from.  An exception
\* is caught inside and gives (0.0, 0.0).
CausalEstimator_calculate_confidence_interval(np_random, y_control, y_treatment, fault) ==
    IF fault = "ci"
    THEN [interval |-> <<Zero, Zero>>, np_random |-> "seed42", raised |-> FALSE]
    ELSE [interval |-> [bootstrap |-> "seed42", y_control |-> y_control,
                        y_treatment |-> y_treatment],
          np_random |-> "drawn", raised |-> FALSE]

\* Variant of the threshold test that also rejects an uplift equal to the
\* threshold.
CausalEstimator_below_threshold_Inclusive(incremental_attach_rate, min_incremental_lift) ==
    RatGeq(min_incremental_lift, incremental_attach_rate)

\* incremental_attach_rate < self.min_incremental_lift
CausalEstimator_below_threshold(incremental_attach_rate, min_incremental_lift) ==
    RatLt(incremental_attach_rate, min_incremental_lift)

\* The result of the outer except clause.
CausalEstimator_failed == UpliftResult(Zero, Zero, Zero, Zero, Zero, None, 0)

\* estimate_uplift from the estimator's state self = (min_incremental_lift,
\* t_learner, np_random): the UpliftResult, the state it leaves, the
\* experiment it simulated and the stage whose exception it caught.
CausalEstimator_estimate_uplift(self, rule, transactions, fault) ==
    Bind(TreatmentSimulator_simulate_experiment(self.np_random, transactions, rule, fault),
         LAMBDA experiment :
    Bind(Len(experiment.control_features) + Len(experiment.treatment_features),
         LAMBDA sample_size :
    IF Len(experiment.control_features) < 3 \/ Len(experiment.treatment_features) < 3
    THEN [result |-> UpliftResult(Zero, Zero, Zero, Zero, Zero, None, sample_size),
          self |-> [self EXCEPT !.np_random = experiment.np_random],
          experiment |-> experiment,
          caught |-> IF fault = "simulate" THEN "simulate" ELSE "none"]
    ELSE
    Bind(TLearner_fit(self.t_learner, IF fault = "fit" THEN "control" ELSE "none"),
         LAMBDA fit :
    IF fit.raised
    THEN [result |-> CausalEstimator_failed,
          self |-> [self EXCEPT !.np_random = experiment.np_random,
                                !.t_learner = fit.learner],
          experiment |-> experiment, caught |-> "fit"]
    ELSE IF fault = "rates"
    THEN [result |-> CausalEstimator_failed,
          self |-> [self EXCEPT !.np_random = experiment.np_random,
                                !.t_learner = fit.learner],
          experiment |-> experiment, caught |-> "rates"]
    ELSE
    Bind([i \in 1..Len(experiment.control_features) |->
             <<experiment.control_features[i].outcome, 1>>], LAMBDA y_control :
    Bind([i \in 1..Len(experiment.treatment_features) |->
             <<experiment.treatment_features[i].outcome, 1>>], LAMBDA y_treatment :
    Bind(Mean(y_control), LAMBDA control_rate :
    Bind(Mean(y_treatment), LAMBDA treatment_rate :
    Bind(RatSub(treatment_rate, control_rate), LAMBDA incremental_attach_rate :
    IF CausalEstimator_below_threshold(incremental_attach_rate, self.min_incremental_lift)
    THEN [result |-> UpliftResult(Zero, Zero, Zero, control_rate, treatment_rate,
                                  None, sample_size),
          self |-> [self EXCEPT !.np_random = experiment.np_random,
                                !.t_learner = fit.learner],
          experiment |-> experiment, caught |-> "none"]
    ELSE
    Bind(SelectSeq(transactions, LAMBDA r : r.item_id \in rule.consequent),
         LAMBDA consequent_data :
    Bind(IF consequent_data = <<>> THEN Zero
         ELSE Mean([i \in 1..Len(consequent_data) |-> consequent_data[i].price]),
         LAMBDA avg_price :
    Bind(IF consequent_data = <<>> THEN <<1, 4>>
         ELSE Mean([i \in 1..Len(consequent_data) |-> consequent_data[i].margin_pct]),
         LAMBDA avg_margin_pct :
    Bind(RatMul(incremental_attach_rate, avg_price), LAMBDA incremental_revenue :
    Bind(CausalEstimator_calculate_confidence_interval(
             experiment.np_random, y_control, y_treatment, fault), LAMBDA ci :
    IF ci.raised
    THEN [result |-> CausalEstimator_failed,
          self |-> [self EXCEPT !.np_random = ci.np_random, !.t_learner = fit.learner],
          experiment |-> experiment, caught |-> "ci"]
    ELSE [result |-> UpliftResult(incremental_attach_rate, incremental_revenue,
                                  RatMul(incremental_revenue, avg_margin_pct),
                                  control_rate, treatment_rate,
                                  Some(ci.interval), sample_size),
          self |-> [self EXCEPT !.np_random = ci.np_random, !.t_learner = fit.learner],
          experiment |-> experiment,
          caught |-> IF fault = "ci" THEN "ci" ELSE "none"])))))))))))))

(***************************************************************************)
(* AnalyticsService (app/api/services.py): the what-if placeholder rule.   *)
(* A request filter is a record of optional store_id, time_bin,            *)
(* weekday_weekend and quarter.                                            *)
(***************************************************************************)
ContextFilter(store_id, time_bin, weekday_weekend, quarter) ==
    [store_id |-> store_id, time_bin |-> time_bin,
     weekday_weekend |-> weekday_weekend, quarter |-> quarter]

\* The rows of the stored data that pass every filter that is set.
AnalyticsService_load_transactions(db, filters) ==
    [r \in {rr \in DOMAIN db :
              /\ filters.store_id # None => rr.store_id = filters.store_id
              /\ filters.time_bin # None => rr.context_time_bin = filters.time_bin
              /\ filters.weekday_weekend # None =>
                    rr.context_weekday_weekend = filters.weekday_weekend
              /\ filters.quarter # None => rr.context_quarter = filters.quarter} |->
        db[r]]

\* None when the filtered data is empty (the early return), else the
\* placeholder rule handed to the causal estimator.
AnalyticsService_simulate_what_if_rule(db, request) ==
    LET transactions == AnalyticsService_load_transactions(db, request.context)
    IN  IF transactions = EmptyBag THEN None
        ELSE Some(ContextualRule(request.antecedent, request.consequent,
                                 <<0, 1>>, <<0, 1>>, <<0, 1>>,
                                 Context(request.context.store_id,
                                         request.context.time_bin,
                                         request.context.weekday_weekend,
                                         request.context.quarter,
                                         None)))

(***************************************************************************)
(* AnalyticsService (app/api/services.py): the request handlers.  The      *)
(* stored data db is the bag of the rows the query of _load_transactions   *)
(* joins (transaction, item, price, margin_pct); every stored item has a   *)
(* margin.  The service is the record self of its rule cache (key -> list  *)
(* of rule objects), the heap of the rule objects it created and the state *)
(* of its causal estimator.                                                *)
(***************************************************************************)
Min(a, b) == IF a <= b THEN a ELSE b

RuleFilter(store_id, min_support, min_confidence, min_lift, limit, min_rows_per_context, include_causal, max_depth) ==
    [store_id |-> store_id, time_bin |-> None, weekday_weekend |-> None, quarter |-> None,
     min_support |-> min_support, min_confidence |-> min_confidence,
     min_lift |-> min_lift, limit |-> limit,
     min_rows_per_context |-> min_rows_per_context,
     include_causal |-> include_causal, max_depth |-> max_depth]

\* The rows of a loaded DataFrame in row order: by transaction, the rows of
\* one transaction in a fixed order.
DataFrame_rows(df) ==
    Bind({r.transaction_id : r \in DOMAIN df}, LAMBDA ids :
         list_extend_all(
            [k \in 1..Cardinality(ids) |->
               SetToSeq({r \in DOMAIN df :
                           r.transaction_id =
                             CHOOSE t \in ids : Cardinality({u \in ids : u < t}) = k - 1})]))

\* The DataFrame as the scorer reads it (item_id, price, margin_pct or NaN).
ScoringFrame(df) ==
    Bind(DataFrame_rows(df), LAMBDA rows :
         [i \in 1..Len(rows) |->
            [transaction_id |-> rows[i].transaction_id, item_id |-> rows[i].item_id[1],
             price |-> rows[i].price, margin_pct |-> rows[i].margin_pct]])

\* The DataFrame as the causal estimator reads it (no margin is missing).
CausalFrame(df) ==
    Bind(DataFrame_rows(df), LAMBDA rows :
         [i \in 1..Len(rows) |->
            [transaction_id |-> rows[i].transaction_id, item_id |-> rows[i].item_id[1],
             price |-> rows[i].price, margin_pct |-> rows[i].margin_pct[1]]])

\* AnalyticsService(): an empty cache, no rule object, a fresh estimator.
AnalyticsService_init(causal_estimator) ==
    [rules_cache |-> <<>>, heap |-> <<>>, causal_estimator |-> causal_estimator]

\* Variant: the context filters are part of the key.
AnalyticsService_rules_cache_key_WithContext(filters) ==
    <<"rules", filters.min_support, filters.min_confidence,
      filters.min_rows_per_context, Some(filters.max_depth), filters.store_id>>

\* f"rules_{min_support}_{min_confidence}_{min_rows_per_context}_{max_depth}"
AnalyticsService_rules_cache_key(filters) ==
    <<"rules", filters.min_support, filters.min_confidence,
      filters.min_rows_per_context, Some(filters.max_depth)>>

\* f"bundles_{safe_min_support}_{min_confidence}_{min_rows_per_context}"
\* with safe_min_support = max(min_support, 0.05)
AnalyticsService_bundles_cache_key(filters) ==
    <<"bundles", RatMax(filters.min_support, <<1, 20>>), filters.min_confidence,
      filters.min_rows_per_context, None>>

\* The rules of the key: the cached list on a hit; otherwise the rules
\* mine_all_contexts returns become new objects and their list is stored.
AnalyticsService_cached_or_mined(self, cache_key, transactions, min_support, min_confidence, min_rows, max_depth) ==
    IF cache_key \in DOMAIN self.rules_cache
    THEN [self |-> self, rules |-> self.rules_cache[cache_key]]
    ELSE
    Bind(SetToSeq(ContextAwareMiner_mine_all_contexts(
             transactions, min_support, min_confidence, min_rows, max_depth)),
         LAMBDA mined :
    Bind([i \in 1..Len(mined) |-> Len(self.heap) + i], LAMBDA rules :
         [self |-> [self EXCEPT !.heap = self.heap \o mined,
                                !.rules_cache = (cache_key :> rules) @@ self.rules_cache],
          rules |-> rules]))

\* estimate_uplift called for each rule of the list in turn.
RECURSIVE AnalyticsService_estimate_each(_, _, _, _)
AnalyticsService_estimate_each(causal_estimator, heap, rules, transactions) ==
    IF rules = <<>>
    THEN [uplift_results |-> <<>>, causal_estimator |-> causal_estimator]
    ELSE
    Bind(CausalEstimator_estimate_uplift(causal_estimator, heap[rules[1]],
                                         transactions, "none"), LAMBDA first :
    Bind(AnalyticsService_estimate_each(first.self, heap, Tail(rules), transactions),
         LAMBDA rest :
         [uplift_results |-> <<first.result>> \o rest.uplift_results,
          causal_estimator |-> rest.causal_estimator]))

\* _rule_to_response: the rule's fields and scores as they are now, and the
\* uplift payload (an UpliftResult object is truthy, whatever its values).
rule_to_response(rule, uplift) ==
    [antecedent |-> rule.antecedent, consequent |-> rule.consequent,
     context |-> rule.context, support |-> rule.support,
     confidence |-> rule.confidence, lift |-> rule.lift,
     profit_score |-> rule.profit_score, diversity_score |-> rule.diversity_score,
     overall_score |-> rule.overall_score, uplift |-> uplift]

\* What a handler returns before anything was ranked.
AnalyticsService_empty(self) ==
    [self |-> self, response |-> <<>>, ranked |-> <<>>, estimated |-> <<>>]

\* Variant: every returned rule is estimated.
AnalyticsService_rules_to_estimate_All(top_rules, include_causal) ==
    IF include_causal THEN top_rules ELSE <<>>

\* top_rules[: min(10, len(top_rules))] when include_causal.
AnalyticsService_rules_to_estimate(top_rules, include_causal) ==
    IF include_causal THEN SubSeq(top_rules, 1, Min(10, Len(top_rules))) ELSE <<>>

\* The end of get_rules, from the scored list on: the uplift estimates and
\* the responses, which read the scores the objects hold at that moment.
AnalyticsService_rule_responses(self, scored_rules, transactions, filters) ==
    Bind(SubSeq(scored_rules, 1, Min(filters.limit, Len(scored_rules))), LAMBDA top_rules :
    Bind(AnalyticsService_rules_to_estimate(top_rules, filters.include_causal),
         LAMBDA to_estimate :
    Bind(CausalFrame(transactions), LAMBDA frame :
    Bind(AnalyticsService_estimate_each(self.causal_estimator, self.heap, to_estimate,
                                        frame), LAMBDA est :
         [self |-> [self EXCEPT !.causal_estimator = est.causal_estimator],
          response |->
              [idx \in 1..Len(top_rules) |->
                  rule_to_response(self.heap[top_rules[idx]],
                                   IF idx \in DOMAIN est.uplift_results
                                   THEN Some(est.uplift_results[idx]) ELSE None)],
          ranked |-> scored_rules,
          estimated |-> to_estimate]))))

\* The rules that pass the lift filter, capped at max(limit * 10, 500).
AnalyticsService_candidates(heap, rules, filters) ==
    Bind(SelectSeq(rules, LAMBDA o : RatGeq(heap[o].lift, filters.min_lift)),
         LAMBDA passing :
         SubSeq(passing, 1, Min(Len(passing), Max(filters.limit * 10, 500))))

\* score_rules on the candidates: the scores are written into the objects.
AnalyticsService_score(self, candidates, transactions) ==
    Bind(ScoringFrame(transactions), LAMBDA frame :
    Bind(MultiObjectiveScorer_score_rules(self.heap, candidates, frame), LAMBDA scored :
         [self |-> [self EXCEPT !.heap = scored.heap],
          scored_rules |-> scored.scored_rules]))

AnalyticsService_get_rules(self, db, filters) ==
    Bind(AnalyticsService_load_transactions(db, filters), LAMBDA transactions :
    IF transactions = EmptyBag THEN AnalyticsService_empty(self)
    ELSE
    Bind(AnalyticsService_cached_or_mined(
             self, AnalyticsService_rules_cache_key(filters), transactions,
             filters.min_support, filters.min_confidence,
             filters.min_rows_per_context, filters.max_depth), LAMBDA looked :
    Bind(AnalyticsService_candidates(looked.self.heap, looked.rules, filters),
         LAMBDA candidates :
    IF candidates = <<>> THEN AnalyticsService_empty(looked.self)
    ELSE
    Bind(AnalyticsService_score(looked.self, candidates, transactions), LAMBDA scored :
         AnalyticsService_rule_responses(scored.self, scored.scored_rules,
                                         transactions, filters)))))

\* _rule_to_bundle_response.  `rule.overall_score or 0.0'; the margin and
\* attach rate come from the uplift when there is one.
rule_to_bundle_response(rule, uplift) ==
    [bundle_id |-> <<rule.antecedent, rule.consequent, Context_str(rule.context)>>,
     anchor_items |-> rule.antecedent,
     recommended_items |-> rule.consequent,
     context |-> rule.context,
     overall_score |-> IF rule.overall_score = None THEN Zero ELSE rule.overall_score[1],
     expected_margin |-> IF uplift # None THEN Some(uplift[1].incremental_margin)
                         ELSE rule.profit_score,
     expected_attach_rate |-> IF uplift # None /\ RatLt(Zero, uplift[1].treatment_rate)
                              THEN uplift[1].treatment_rate ELSE rule.confidence,
     uplift |-> uplift]

\* One pass of the loop of get_bundles, for the rule at index idx (0-based)
\* of enumerate(scored_rules).  acc holds bundles, seen_keys, uplift_cache,
\* the estimator and the list of the rules handed to estimate_uplift.
AnalyticsService_bundle_pass(acc, rule, object, idx, transactions, filters) ==
    Bind(<<rule.antecedent, rule.consequent, Context_str(rule.context)>>,
         LAMBDA cache_key :
    IF cache_key \in acc.seen_keys THEN acc          \* continue
    ELSE
    Bind(filters.include_causal /\ cache_key \notin DOMAIN acc.uplift_cache /\ idx < 10,
         LAMBDA estimate :
    Bind(IF estimate
         THEN CausalEstimator_estimate_uplift(acc.causal_estimator, rule,
                                              transactions, "none")
         ELSE [result |-> None, self |-> acc.causal_estimator], LAMBDA call :
    Bind(IF estimate THEN (cache_key :> call.result) @@ acc.uplift_cache
         ELSE acc.uplift_cache, LAMBDA uplift_cache :
    Bind(IF filters.include_causal /\ cache_key \in DOMAIN uplift_cache
         THEN Some(uplift_cache[cache_key]) ELSE None, LAMBDA uplift :
         [bundles |-> Append(acc.bundles, rule_to_bundle_response(rule, uplift)),
          seen_keys |-> acc.seen_keys \union {cache_key},
          uplift_cache |-> uplift_cache,
          causal_estimator |-> call.self,
          estimated |-> IF estimate THEN Append(acc.estimated, object)
                        ELSE acc.estimated])))))

\* The loop from index idx on; it ends with the list or at
\* `if len(bundles) >= filters.limit: break'.
RECURSIVE AnalyticsService_bundle_loop(_, _, _, _, _, _)
AnalyticsService_bundle_loop(acc, heap, scored_rules, idx, transactions, filters) ==
    IF idx >= Len(scored_rules) THEN acc
    ELSE
    Bind(AnalyticsService_bundle_pass(acc, heap[scored_rules[idx + 1]],
                                      scored_rules[idx + 1], idx, transactions, filters),
         LAMBDA next :
         IF Len(next.bundles) >= filters.limit THEN next
         ELSE AnalyticsService_bundle_loop(next, heap, scored_rules, idx + 1,
                                           transactions, filters))

\* The end of get_bundles, from scored_rules = score_rules(...)[: limit] on:
\* the loop over the scored list, which reads the objects as they are then.
AnalyticsService_bundle_responses(self, scored_rules, transactions, filters) ==
    Bind(CausalFrame(transactions), LAMBDA frame :
    Bind(AnalyticsService_bundle_loop(
             [bundles |-> <<>>, seen_keys |-> {}, uplift_cache |-> <<>>,
              causal_estimator |-> self.causal_estimator, estimated |-> <<>>],
             self.heap, scored_rules, 0, frame, filters),
         LAMBDA loop :
         [self |-> [self EXCEPT !.causal_estimator = loop.causal_estimator],
          response |-> loop.bundles,
          ranked |-> scored_rules,
          estimated |-> loop.estimated]))

AnalyticsService_get_bundles(self, db, filters) ==
    Bind(AnalyticsService_load_transactions(db, filters), LAMBDA transactions :
    IF transactions = EmptyBag THEN AnalyticsService_empty(self)
    ELSE
    Bind(AnalyticsService_cached_or_mined(
             self, AnalyticsService_bundles_cache_key(filters), transactions,
             RatMax(filters.min_support, <<1, 20>>), filters.min_confidence,
             filters.min_rows_per_context, 0), LAMBDA looked :
    Bind(SelectSeq(looked.rules,
                   LAMBDA o : RatGeq(looked.self.heap[o].lift, filters.min_lift)),
         LAMBDA passing :
    IF passing = <<>> THEN AnalyticsService_empty(looked.self)
    ELSE
    Bind(AnalyticsService_score(looked.self, passing, transactions), LAMBDA scored :
         AnalyticsService_bundle_responses(
             scored.self,
             SubSeq(scored.scored_rules, 1, Min(filters.limit, Len(scored.scored_rules))),
             transactions, filters)))))

\* round(x, 2) of a non-negative value: to the nearest hundredth, ties to
\* the even one.
round_2(x) ==
    LET whole == (x[1] * 100) \div x[2]
        twice_rest == 2 * ((x[1] * 100) % x[2])
    IN  IF twice_rest > x[2] \/ (twice_rest = x[2] /\ whole % 2 = 1)
        THEN Rat(whole + 1, 100) ELSE Rat(whole, 100)

AnalyticsService_no_stats ==
    [avg_lift |-> Zero, profit_opportunity |-> Zero, active_rules |-> 0,
     top_opportunities |-> <<>>]

\* get_stats: get_rules with its default filter, then the dashboard figures.
AnalyticsService_get_stats(self, db) ==
    IF db = EmptyBag THEN [self |-> self, response |-> AnalyticsService_no_stats]
    ELSE
    Bind(AnalyticsService_get_rules(
             self, db, RuleFilter(None, <<1, 20>>, <<1, 10>>, <<6, 5>>, 200, 50, TRUE, 0)),
         LAMBDA call :
    Bind(call.response, LAMBDA rules :
    IF rules = <<>> THEN [self |-> call.self, response |-> AnalyticsService_no_stats]
    ELSE [self |-> call.self,
          response |->
            [avg_lift |-> round_2(Mean([i \in 1..Len(rules) |-> rules[i].lift])),
             profit_opportunity |->
                round_2(RatMul(RatSum([i \in 1..Min(20, Len(rules)) |->
                                          IF rules[i].profit_score = None THEN Zero
                                          ELSE rules[i].profit_score[1]]),
                               <<1000, 1>>)),
             active_rules |-> Len(rules),
             top_opportunities |->
                [i \in 1..Min(5, Len(rules)) |->
                    [label |-> <<rules[i].antecedent, rules[i].consequent>>,
                     value |-> rules[i].profit_score]]]]))

\* clear_cache: self._rules_cache = {}
AnalyticsService_clear_cache(self) == [self EXCEPT !.rules_cache = <<>>]

\* Variant: the import leaves the cache as it is.
AnalyticsService_import_csv_KeepsCache(self, db, upload_file) ==
    IF upload_file.outcome = "imported"
    THEN [self |-> self, db |-> db (+) upload_file.rows, raised |-> FALSE]
    ELSE [self |-> self, db |-> db, raised |-> upload_file.outcome = "raised"]

\* import_csv.  The upload either cannot be read (the call raises before
\* the importer runs), or the importer returns: with the rows inserted, or
\* with an error result and nothing inserted.  Whenever the importer
\* returns, the cache is cleared.
AnalyticsService_import_csv(self, db, upload_file) ==
    IF upload_file.outcome = "raised"
    THEN [self |-> self, db |-> db, raised |-> TRUE]
    ELSE [self |-> AnalyticsService_clear_cache(self),
          db |-> IF upload_file.outcome = "imported" THEN db (+) upload_file.rows ELSE db,
          raised |-> FALSE]

MaintenanceActionRequest(clear_rules, clear_bundles, clear_uploads, clear_cache) ==
    [clear_rules |-> clear_rules, clear_bundles |-> clear_bundles,
     clear_uploads |-> clear_uploads, clear_cache |-> clear_cache]

\* clear_data: the transaction tables are emptied when clear_uploads, the
\* cache when clear_cache (the rule and uplift tables hold nothing the
\* handlers read).
AnalyticsService_clear_data(self, db, request) ==
    [self |-> IF request.clear_cache THEN AnalyticsService_clear_cache(self) ELSE self,
     db |-> IF request.clear_uploads THEN EmptyBag ELSE db,
     response |-> [tables_cleared |->
                      (IF request.clear_rules \/ request.clear_bundles
                       THEN <<"uplift_results", "association_rules">> ELSE <<>>) \o
                      (IF request.clear_uploads
                       THEN <<"transaction_items", "transactions", "items">> ELSE <<>>),
                   cache_cleared |-> request.clear_cache]]

\* simulate_what_if: the placeholder rule is handed to the estimator; the
\* revenue and margin are scaled by 1 - anticipated_discount_pct.
AnalyticsService_simulate_what_if(self, db, request) ==
    Bind(AnalyticsService_simulate_what_if_rule(db, request), LAMBDA placeholder :
    IF placeholder = None
    THEN [self |-> self,
          response |-> [projected_attach_rate |-> Zero, incremental_attach_rate |-> Zero,
                        incremental_revenue |-> Zero, incremental_margin |-> Zero,
                        uplift |-> None]]
    ELSE
    Bind(CausalFrame(AnalyticsService_load_transactions(db, request.context)),
         LAMBDA frame :
    Bind(CausalEstimator_estimate_uplift(self.causal_estimator, placeholder[1],
                                         frame, "none"),
         LAMBDA call :
    Bind(call.result, LAMBDA uplift :
    Bind(RatSub(<<1, 1>>, request.anticipated_discount_pct), LAMBDA discount_multiplier :
         [self |-> [self EXCEPT !.causal_estimator = call.self],
          response |->
             [projected_attach_rate |->
                  RatMax(uplift.treatment_rate,
                         RatAdd(uplift.control_rate, uplift.incremental_attach_rate)),
              incremental_attach_rate |-> uplift.incremental_attach_rate,
              incremental_revenue |-> RatMul(uplift.incremental_revenue, discount_multiplier),
              incremental_margin |-> RatMul(uplift.incremental_margin, discount_multiplier),
              uplift |-> Some([uplift EXCEPT
                  !.incremental_revenue = RatMul(uplift.incremental_revenue, discount_multiplier),
                  !.incremental_margin = RatMul(uplift.incremental_margin, discount_multiplier)])]])))))

(***************************************************************************)
(* State.                                                                  *)
(***************************************************************************)
VARIABLES
    pc,              \* which call the harness made last
    trans_list,      \* the transaction list handed to both miners
    min_support,
    min_confidence,
    fp_itemsets,     \* result of FPGrowthMiner.mine
    eclat_itemsets,  \* result of EclatMiner.mine
    fp_rules,        \* result of FPGrowthMiner.generate_rules
    eclat_rules,     \* result of EclatMiner.generate_rules
    transactions,    \* the transaction DataFrame (a bag of rows)
    min_rows,        \* ContextSegmenter.min_rows
    max_depth,
    segments,        \* result of ContextSegmenter.segment
    all_rules,       \* result of ContextAwareMiner.mine_all_contexts
    placeholder_rule \* the rule simulate_what_if built last, or None

mineVars == <<trans_list, min_support, min_confidence,
              fp_itemsets, eclat_itemsets, fp_rules, eclat_rules>>

segVars == <<transactions, min_rows, max_depth, segments>>

ruleVars == <<all_rules, placeholder_rule>>

VARIABLES
    failing_context, \* the segment whose calls raise, or None
    raising_call,    \* the call that raises for it
    raised_contexts  \* the contexts whose except branch was taken

raiseVars == <<failing_context, raising_call, raised_contexts>>

VARIABLES
    rule_heap,        \* the ContextualRule objects: object number -> fields
    input_rules,      \* the list of rule objects handed to the scorers
    scored_rules,     \* the list MultiObjectiveScorer.score_rules returned
    profit_result,    \* last calculate_rule_profit call: rule and value
    diversity_result  \* last calculate_diversity call: rule and value

scoreVars == <<rule_heap, input_rules, scored_rules, profit_result, diversity_result>>

VARIABLES
    estimator,       \* the CausalEstimator: threshold, T-learner, numpy generator
    uplift_call,     \* last estimate_uplift call: rule, fault, stage caught,
                     \* generator state it started from, number of the call
    uplift_result,   \* the UpliftResult it returned, or None
    experiment,      \* what its simulate_experiment call built, or None
    learner_log      \* the calls made on a TLearner and their outcomes

causalVars == <<estimator, uplift_call, uplift_result, experiment, learner_log>>

VARIABLES
    context_arg,     \* the Context handed to str(), or None
    context_text     \* the text str() returned, or None

contextVars == <<context_arg, context_text>>

VARIABLES
    manager,         \* the RealTimeManager: active_connections, is_simulating
    sim_tasks,       \* the start_simulation tasks created, each at its position
    websockets       \* each websocket endpoint's position

realtimeVars == <<manager, sim_tasks, websockets>>

VARIABLES
    rules_cache,       \* AnalyticsService._rules_cache: key -> list of rule objects
    service_call,      \* the service operation made last, or None
    service_response,  \* what it returned, or None
    inflight           \* the get_rules / get_bundles requests being served

serviceVars == <<rules_cache, service_call, service_response, inflight>>

lateVars == <<contextVars, realtimeVars, serviceVars>>

extVars == <<raiseVars, scoreVars, causalVars, lateVars>>

vars == <<pc, mineVars, segVars, ruleVars, extVars>>

RaiseIdle ==
    /\ failing_context = None
    /\ raising_call = NoRaise
    /\ raised_contexts = {}

ScoreIdle ==
    /\ rule_heap = <<>>
    /\ input_rules = <<>>
    /\ scored_rules = <<>>
    /\ profit_result = None
    /\ diversity_result = None

\* CausalEstimator(): min_incremental_lift = 0.05, a fresh TLearner.
CausalEstimator_init(min_incremental_lift) ==
    [min_incremental_lift |-> min_incremental_lift,
     t_learner |-> TLearner_init,
     np_random |-> "unseeded"]

CausalIdle ==
    /\ estimator = CausalEstimator_init(<<1, 20>>)
    /\ uplift_call = None
    /\ uplift_result = None
    /\ experiment = None
    /\ learner_log = <<>>

ContextIdle ==
    /\ context_arg = None
    /\ context_text = None

\* RealTimeManager(): no connection, not simulating; no task, no endpoint.
RealTimeManager_init == [active_connections |-> <<>>, is_simulating |-> FALSE]

RealTimeIdle ==
    /\ manager = RealTimeManager_init
    /\ sim_tasks = <<>>
    /\ websockets = <<>>

\* AnalyticsService(): an empty rule cache, nothing asked yet.
ServiceIdle ==
    /\ rules_cache = <<>>
    /\ service_call = None
    /\ service_response = None
    /\ inflight = <<>>

LateIdle ==
    /\ ContextIdle
    /\ RealTimeIdle
    /\ ServiceIdle

ExtIdle ==
    /\ RaiseIdle
    /\ ScoreIdle
    /\ CausalIdle
    /\ LateIdle

NoSegments == <<>>

SegIdle ==
    /\ transactions = EmptyBag
    /\ min_rows = 0
    /\ max_depth = 0
    /\ segments = NoSegments

RuleIdle ==
    /\ all_rules = {}
    /\ placeholder_rule = None

NoItemsets == [raised |-> FALSE, itemsets |-> {}]

(***************************************************************************)
(* SpecMine: both miners on one transaction list (the cross-check of       *)
(* test_eclat_validation), then both rule generators.                      *)
(***************************************************************************)
RECURSIVE SeqsUpTo(_, _)
SeqsUpTo(S, n) ==
    IF n = 0 THEN {<<>>}
    ELSE LET shorter == SeqsUpTo(S, n - 1)
         IN  shorter \cup {Append(s, e) : s \in {ss \in shorter : Len(ss) = n - 1},
                                           e \in S}

InitMine ==
    /\ pc = "input"
    /\ trans_list \in SeqsUpTo(SUBSET Items, MaxTransList)
    /\ min_support \in Thresholds
    /\ min_confidence = <<0, 1>>
    /\ fp_itemsets = NoItemsets
    /\ eclat_itemsets = NoItemsets
    /\ fp_rules = {}
    /\ eclat_rules = {}
    /\ SegIdle
    /\ RuleIdle
    /\ ExtIdle

Mine ==
    /\ pc = "input"
    /\ fp_itemsets' = FPGrowthMiner_mine(trans_list, min_support)
    /\ eclat_itemsets' = EclatMiner_mine(trans_list, min_support)
    /\ pc' = "mined"
    /\ UNCHANGED <<trans_list, min_support, min_confidence, fp_rules, eclat_rules>>
    /\ UNCHANGED <<segVars, ruleVars>>
    /\ UNCHANGED extVars

GenerateRules ==
    /\ pc = "mined"
    /\ \E mc \in Thresholds :
         /\ min_confidence' = mc
         /\ fp_rules' = FPGrowthMiner_generate_rules(fp_itemsets.itemsets, mc)
         /\ eclat_rules' = EclatMiner_generate_rules(eclat_itemsets.itemsets, mc)
    /\ pc' = "rules"
    /\ UNCHANGED <<trans_list, min_support, fp_itemsets, eclat_itemsets>>
    /\ UNCHANGED <<segVars, ruleVars>>
    /\ UNCHANGED extVars

NextMine == Mine \/ GenerateRules

SpecMine == InitMine /\ [][NextMine]_vars

(***************************************************************************)
(* SpecSeg: a DataFrame is built row by row, then segmented.               *)
(***************************************************************************)
MaxRows == 22

MaxDepth == 2

\* min_rows values: below, at and above the festival floors of 20 and 15.
MinRowsChoices == {0, 2, 43, 64}

Row(tid, item, store, time_bin, weekday_type, quarter, festival) ==
    [transaction_id          |-> tid,
     item_id                 |-> item,
     store_id                |-> store,
     context_time_bin        |-> time_bin,
     context_weekday_weekend |-> weekday_type,
     context_quarter         |-> quarter,
     context_festival        |-> festival]

SegRowTypes ==
    {Row("t1", Some("x"), Some("S1"), Some("morning"), Some("weekday"), Some(4),
         Some("diwali")),
     Row("t2", Some("x"), Some("S1"), Some("evening"), Some("weekend"), Some(4),
         Some("")),
     Row("t3", Some("y"), Some("S2"), Some("morning"), Some("weekday"), Some(1),
         None),
     Row("t4", Some("y"), None, None, None, None, Some("holi"))}

AddRowTo(df, row) ==
    [r \in DOMAIN df \cup {row} |->
        (IF r \in DOMAIN df THEN df[r] ELSE 0) + (IF r = row THEN 1 ELSE 0)]

MineIdle ==
    /\ trans_list = <<>>
    /\ min_support = <<0, 1>>
    /\ min_confidence = <<0, 1>>
    /\ fp_itemsets = NoItemsets
    /\ eclat_itemsets = NoItemsets
    /\ fp_rules = {}
    /\ eclat_rules = {}

InitSeg ==
    /\ pc = "input"
    /\ SegIdle
    /\ MineIdle
    /\ RuleIdle
    /\ ExtIdle

AddRow ==
    /\ pc = "input"
    /\ len(transactions) < MaxRows
    /\ \E row \in SegRowTypes : transactions' = AddRowTo(transactions, row)
    /\ UNCHANGED <<pc, min_rows, max_depth, segments, mineVars, ruleVars>>
    /\ UNCHANGED extVars

Segment ==
    /\ pc = "input"
    /\ \E mr \in MinRowsChoices, depth \in 0..MaxDepth :
         /\ min_rows' = mr
         /\ max_depth' = depth
         /\ segments' = ContextSegmenter_segment(transactions, mr, depth)
    /\ pc' = "segmented"
    /\ UNCHANGED <<transactions, mineVars, ruleVars>>
    /\ UNCHANGED extVars

NextSeg == AddRow \/ Segment

SpecSeg == InitSeg /\ [][NextSeg]_vars

(***************************************************************************)
(* Spec: transactions are stored one by one, the stored data is mined      *)
(* across its contexts, and a what-if request builds its placeholder rule. *)
(***************************************************************************)
MaxTransactions == 6

\* The transactions that can be stored: the items of the basket (None is a
\* missing item value) and the store and time bin of the transaction.
TransactionKinds ==
    << [items |-> {Some("x"), Some("y")},            store |-> Some("S1"), time_bin |-> Some("morning")],
       [items |-> {Some("x"), Some("y"), Some("z")}, store |-> Some("S1"), time_bin |-> Some("evening")],
       [items |-> {Some("x"), Some("y")},            store |-> Some("S2"), time_bin |-> Some("morning")],
       [items |-> {Some("z"), None},                 store |-> Some("S2"), time_bin |-> Some("evening")],
       [items |-> {None},                            store |-> Some("S2"), time_bin |-> Some("morning")] >>

MinerSupports == {<<0, 1>>, <<1, 2>>, <<1, 1>>}

MinerConfidences == {<<1, 2>>, <<1, 1>>}

MinerMinRows == {1, 8}

WhatIfRequests ==
    {[antecedent |-> a, consequent |-> c, context |-> f] :
        a \in {{"x"}, {"x", "y"}},
        c \in {{"y"}, {"x"}},
        f \in {ContextFilter(None, None, None, None),
               ContextFilter(Some("S1"), None, None, None)}}

TransactionIds(df) == unique(df, "transaction_id")

\* The rows of the next transaction of kind k.
NewTransaction(df, k) ==
    LET n   == Cardinality({tid \in TransactionIds(df) : tid[1] = k})
        tid == <<k, n + 1>>
    IN  {Row(tid, item, TransactionKinds[k].store, TransactionKinds[k].time_bin,
             None, None, None) : item \in TransactionKinds[k].items}

Init ==
    /\ pc = "input"
    /\ SegIdle
    /\ MineIdle
    /\ RuleIdle
    /\ ExtIdle

AddTransaction ==
    /\ pc = "input"
    /\ Cardinality(TransactionIds(transactions)) < MaxTransactions
    /\ \E k \in DOMAIN TransactionKinds :
         transactions' = transactions (+) SetToBag(NewTransaction(transactions, k))
    /\ UNCHANGED <<pc, min_rows, max_depth, segments, mineVars, ruleVars>>
    /\ UNCHANGED extVars

MineAllContexts ==
    /\ pc = "input"
    /\ \E ms \in MinerSupports, mc \in MinerConfidences,
          mr \in MinerMinRows, depth \in 0..MaxDepth :
         /\ min_support' = ms
         /\ min_confidence' = mc
         /\ min_rows' = mr
         /\ max_depth' = depth
         /\ all_rules' = ContextAwareMiner_mine_all_contexts(transactions, ms, mc, mr, depth)
    /\ pc' = "mined"
    /\ UNCHANGED <<transactions, segments, placeholder_rule, trans_list,
                   fp_itemsets, eclat_itemsets, fp_rules, eclat_rules>>
    /\ UNCHANGED extVars

SimulateWhatIf ==
    /\ pc = "mined"
    /\ \E request \in WhatIfRequests :
         placeholder_rule' = AnalyticsService_simulate_what_if_rule(transactions, request)
    /\ pc' = "whatif"
    /\ UNCHANGED <<all_rules, mineVars, segVars>>
    /\ UNCHANGED extVars

Next == AddTransaction \/ MineAllContexts \/ SimulateWhatIf

Spec == Init /\ [][Next]_vars

(***************************************************************************)
(* Reference definitions read off the transaction list itself.             *)
(***************************************************************************)
ContainCount(tl, S) ==
    Cardinality({tid \in 1..Len(tl) : S \subseteq tl[tid]})

SupportOf(tl, S) == Rat(ContainCount(tl, S), Len(tl))

\* The candidate rules of a frequent-itemset table, scored as section 4.3
\* of the specification scores them, kept when confidence >= min_confidence.
ExpectedRules(tl, itemsets, mc) ==
    LET scored(S, A) ==
            LET conf == RatDiv(SupportOf(tl, S), SupportOf(tl, A))
            IN  [antecedents |-> A,
                 consequents |-> S \ A,
                 support     |-> SupportOf(tl, S),
                 confidence  |-> conf,
                 lift        |-> RatDiv(conf, SupportOf(tl, S \ A))]
        candidates ==
            UNION {{scored(row.itemsets, A) :
                      A \in (SUBSET row.itemsets) \ {{}, row.itemsets}} :
                   row \in {rr \in itemsets : Cardinality(rr.itemsets) >= 2}}
    IN  {r \in candidates : RatGeq(r.confidence, mc)}

(***************************************************************************)
(* C1.  For every transaction list and every min_support in [0,1],         *)
(* EclatMiner.mine and FPGrowthMiner.mine return the same collection of    *)
(* frequent itemsets with equal supports (same itemsets, of any size, and  *)
(* for each the same support).                                             *)
(***************************************************************************)
C1_EclatAgreesWithFPGrowth ==
    pc \in {"mined", "rules"} =>
        /\ ~fp_itemsets.raised
        /\ ~eclat_itemsets.raised
        /\ fp_itemsets.itemsets = eclat_itemsets.itemsets

(***************************************************************************)
(* C10.  Each rule returned by generate_rules (of FPGrowthMiner and of     *)
(* EclatMiner) has confidence = support(antecedent united with consequent) *)
(* / support(antecedent) and lift = confidence / support(consequent), and  *)
(* the rules returned are exactly the candidate rules (every non-empty     *)
(* proper subset of every itemset of size >= 2 as antecedent, the rest as  *)
(* consequent) whose confidence is >= min_confidence.                      *)
(***************************************************************************)
C10_RulesScoredAndFiltered ==
    pc = "rules" =>
        /\ fp_rules = ExpectedRules(trans_list, fp_itemsets.itemsets, min_confidence)
        /\ eclat_rules = ExpectedRules(trans_list, eclat_itemsets.itemsets, min_confidence)

\* The part of C10 that concerns FPGrowthMiner alone.
FPRulesScoredAndFiltered ==
    pc = "rules" =>
        fp_rules = ExpectedRules(trans_list, fp_itemsets.itemsets, min_confidence)

(***************************************************************************)
(* Reference definitions read off the DataFrame itself.                    *)
(***************************************************************************)
\* The DataFrame column a Context field filters.
ColumnOf(field) ==
    CASE field = "store_id"        -> "store_id"
      [] field = "time_bin"        -> "context_time_bin"
      [] field = "weekday_weekend" -> "context_weekday_weekend"
      [] field = "quarter"         -> "context_quarter"
      [] field = "festival_period" -> "context_festival"

ContextFields ==
    {"store_id", "time_bin", "weekday_weekend", "quarter", "festival_period"}

SetFields(ctx) == {f \in ContextFields : ctx[f] # None}

\* The rows of df whose dimension columns equal every set field of ctx.
Matching(df, ctx) ==
    [r \in {rr \in DOMAIN df : \A f \in SetFields(ctx) : rr[ColumnOf(f)] = ctx[f]} |->
        df[r]]

\* The non-festival families and the depth that enables each.
SingleFamilies == {{"store_id"}, {"time_bin"}, {"weekday_weekend"}, {"quarter"}}

DoubleFamilies == {{"store_id", "time_bin"}, {"weekday_weekend", "time_bin"},
                   {"store_id", "quarter"}}

FamilyEnabled(ctx, depth) ==
    \/ depth >= 1 /\ SetFields(ctx) \in SingleFamilies
    \/ depth >= 2 /\ SetFields(ctx) \in DoubleFamilies

\* Every Context without a festival whose set fields hold non-null values
\* present in df.
NonFestivalContextsOver(df) ==
    {Context(s, t, w, q, None) :
        s \in {None} \cup unique(df, "store_id"),
        t \in {None} \cup unique(df, "context_time_bin"),
        w \in {None} \cup unique(df, "context_weekday_weekend"),
        q \in {None} \cup unique(df, "context_quarter")}

\* Festival values that name a festival.
Festivals(df) == {f \in unique(df, "context_festival") : f # None /\ f # Some("")}

TimeBins(df) == {t \in unique(df, "context_time_bin") : t # None}

(***************************************************************************)
(* C3.  segment returns a map that contains the all-unset Context          *)
(* (Overall) mapped to the entire input transaction set, regardless of     *)
(* min_rows; with max_depth = 0 that is the only entry of the map.         *)
(***************************************************************************)
C3_OverallAlwaysProduced ==
    pc = "segmented" =>
        /\ Overall \in DOMAIN segments
        /\ segments[Overall] = transactions
        /\ (max_depth = 0 => DOMAIN segments = {Overall})

\* Overall is there although the input has fewer rows than min_rows, next to
\* a segment that passed its own threshold.
C3_Witness ==
    /\ pc = "segmented"
    /\ max_depth >= 1
    /\ len(transactions) < min_rows
    /\ Overall \in DOMAIN segments
    /\ Cardinality(DOMAIN segments) > 1

(***************************************************************************)
(* C4.  For the non-festival families, a segment is in the result of       *)
(* segment if and only if its family is enabled by max_depth (store,       *)
(* time-bin, weekday/weekend, quarter at depth >= 1; store x time-bin,     *)
(* weekday x time-bin, store x quarter at depth >= 2), its dimension       *)
(* values are non-null values present in the data, and its row count is    *)
(* >= min_rows; no other non-festival combination is ever produced.        *)
(***************************************************************************)
C4_NonFestivalSegmentsIff ==
    pc = "segmented" =>
        {ctx \in DOMAIN segments : ctx.festival_period = None /\ ctx # Overall}
          = {ctx \in NonFestivalContextsOver(transactions) :
                /\ FamilyEnabled(ctx, max_depth)
                /\ len(Matching(transactions, ctx)) >= min_rows}

\* Two stores and a time bin are present; the pair of one store passes
\* min_rows and the pair of the other store is omitted.
C4_Witness ==
    /\ pc = "segmented"
    /\ max_depth = 2
    /\ min_rows = 2
    /\ Context(Some("S1"), Some("morning"), None, None, None) \in DOMAIN segments
    /\ Some("S2") \in unique(transactions, "store_id")
    /\ Context(Some("S2"), Some("morning"), None, None, None) \notin DOMAIN segments
    /\ Context(Some("S2"), None, None, None, None) \notin DOMAIN segments

(***************************************************************************)
(* C5 as claimed.  A festival segment is included at depth >= 1 iff its    *)
(* row count is >= max(min_rows/2, 20), and a festival x time-bin segment  *)
(* at depth >= 2 iff its row count is >= max(min_rows/3, 15), with         *)
(* min_rows/2 and min_rows/3 the exact (untruncated) quotients.            *)
(***************************************************************************)
C5_ExactQuotientThresholds ==
    pc = "segmented" =>
        /\ \A f \in Festivals(transactions) :
             LET n == len(Where(transactions, "context_festival", f))
             IN  Context(None, None, None, None, f) \in DOMAIN segments
                   <=> (max_depth >= 1 /\ 2 * n >= min_rows /\ n >= FestivalMinRows)
        /\ \A f \in Festivals(transactions), t \in TimeBins(transactions) :
             LET n == len(Where2(transactions, "context_festival", f,
                                 "context_time_bin", t))
             IN  Context(None, t, None, None, f) \in DOMAIN segments
                   <=> (max_depth >= 2 /\ 3 * n >= min_rows /\ n >= FestivalTimeMinRows)

(***************************************************************************)
(* C5 as amended.  The thresholds are max(floor(min_rows/2), 20) and       *)
(* max(floor(min_rows/3), 15): n >= floor(m/2) iff 2n + 1 >= m, and        *)
(* n >= floor(m/3) iff 3n + 2 >= m.                                        *)
(***************************************************************************)
C5_FloorQuotientThresholds ==
    pc = "segmented" =>
        /\ \A f \in Festivals(transactions) :
             LET n == len(Where(transactions, "context_festival", f))
             IN  Context(None, None, None, None, f) \in DOMAIN segments
                   <=> (max_depth >= 1 /\ 2 * n + 1 >= min_rows /\ n >= FestivalMinRows)
        /\ \A f \in Festivals(transactions), t \in TimeBins(transactions) :
             LET n == len(Where2(transactions, "context_festival", f,
                                 "context_time_bin", t))
             IN  Context(None, t, None, None, f) \in DOMAIN segments
                   <=> (max_depth >= 2 /\ 3 * n + 2 >= min_rows
                          /\ n >= FestivalTimeMinRows)

\* Odd min_rows above 40: a festival with exactly floor(min_rows/2) rows is
\* segmented.
C5_Witness ==
    /\ pc = "segmented"
    /\ max_depth >= 1
    /\ min_rows = 43
    /\ len(Where(transactions, "context_festival", Some("diwali"))) = 21
    /\ Context(None, None, None, None, Some("diwali")) \in DOMAIN segments

(***************************************************************************)
(* C6.  Context segments are nested: each segment's rows are exactly the   *)
(* input rows whose dimension columns equal every set field of its         *)
(* Context, so every segment is a subset of the Overall segment, and every *)
(* two-dimension segment is a subset of the rows matching each of its two  *)
(* single dimensions.                                                      *)
(***************************************************************************)
C6_SegmentsNested ==
    pc = "segmented" =>
        \A ctx \in DOMAIN segments :
            /\ segments[ctx] = Matching(transactions, ctx)
            /\ segments[ctx] \sqsubseteq segments[Overall]
            /\ \A f \in SetFields(ctx) :
                 segments[ctx] \sqsubseteq
                    Where(transactions, ColumnOf(f), ctx[f])

\* A two-dimension segment strictly inside its store segment, itself strictly
\* inside Overall.
C6_Witness ==
    /\ pc = "segmented"
    /\ LET st == Context(Some("S1"), Some("morning"), None, None, None)
           s  == Context(Some("S1"), None, None, None, None)
       IN  /\ st \in DOMAIN segments
           /\ s \in DOMAIN segments
           /\ len(segments[st]) < len(segments[s])
           /\ len(segments[s]) < len(segments[Overall])

(***************************************************************************)
(* Reference definitions read off the rows of a DataFrame.                 *)
(***************************************************************************)
\* The clean items of transaction tid in df.
ItemsOfTid(df, tid) ==
    {r.item_id[1] : r \in {rr \in DOMAIN df : rr.transaction_id = tid /\ rr.item_id # None}}

\* The transactions of df that have a clean item (those the miner is given).
CleanTids(df) == {tid \in TransactionIds(df) : ItemsOfTid(df, tid) # {}}

\* The fraction of the transactions of df that contain all of S.
FractionContaining(df, S) ==
    Rat(Cardinality({tid \in CleanTids(df) : S \subseteq ItemsOfTid(df, tid)}),
        Cardinality(CleanTids(df)))

\* X and Y occur in every transaction of df.
CoOccurEverywhere(df, X, Y) ==
    \A tid \in TransactionIds(df) : {X, Y} \subseteq ItemsOfTid(df, tid)

HasPerfectRule(rules, X, Y) ==
    \E r \in rules :
        /\ r.antecedent = {X}
        /\ r.consequent = {Y}
        /\ r.context = Overall
        /\ r.support = <<1, 1>>
        /\ r.confidence = <<1, 1>>

\* Every ContextualRule held in the state.
ConstructedRules ==
    all_rules \cup (IF placeholder_rule = None THEN {} ELSE {placeholder_rule[1]})

C8_RulesWellFormed ==
    /\ \A r \in ConstructedRules :
          /\ r.antecedent # {}
          /\ r.consequent # {}
          /\ r.antecedent \cap r.consequent = {}
    /\ \A r \in fp_rules \cup eclat_rules :
          /\ r.antecedents # {}
          /\ r.consequents # {}
          /\ r.antecedents \cap r.consequents = {}

\* The part of C8 that concerns the mined rules alone.
MinedRulesWellFormed ==
    \A r \in all_rules :
        /\ r.antecedent # {}
        /\ r.consequent # {}
        /\ r.antecedent \cap r.consequent = {}

(***************************************************************************)
(* C9 as claimed.  Two ContextualRule values are equal if and only if they *)
(* have the same (antecedent, consequent, context) triple, independently   *)
(* of support, confidence, lift and the scores.                            *)
(***************************************************************************)
C9_EqualityByTriple ==
    \A r1 \in ConstructedRules, r2 \in ConstructedRules :
        ContextualRule_eq(r1, r2) <=>
            ( /\ r1.antecedent = r2.antecedent
              /\ r1.consequent = r2.consequent
              /\ r1.context = r2.context )

(***************************************************************************)
(* C9 as amended.  Two ContextualRule values are equal if and only if all  *)
(* nine fields agree (the triple, support, confidence, lift and the three  *)
(* scores); hashing a rule raises TypeError, so rules cannot be members of *)
(* a set or keys of a map.                                                 *)
(***************************************************************************)
C9_EqualityByAllFields ==
    \A r1 \in ConstructedRules, r2 \in ConstructedRules :
        /\ ContextualRule_eq(r1, r2) <=>
              ( /\ r1.antecedent = r2.antecedent
                /\ r1.consequent = r2.consequent
                /\ r1.context = r2.context
                /\ r1.support = r2.support
                /\ r1.confidence = r2.confidence
                /\ r1.lift = r2.lift
                /\ r1.profit_score = r2.profit_score
                /\ r1.diversity_score = r2.diversity_score
                /\ r1.overall_score = r2.overall_score )
        /\ ContextualRule_hash(r1).raised

\* A mined rule and the what-if placeholder of the same triple, with
\* different supports: unequal.
C9_Witness ==
    /\ pc = "whatif"
    /\ placeholder_rule # None
    /\ \E r \in all_rules :
          /\ r.antecedent = placeholder_rule[1].antecedent
          /\ r.consequent = placeholder_rule[1].consequent
          /\ r.context = placeholder_rule[1].context
          /\ r.support # placeholder_rule[1].support
          /\ ~ContextualRule_eq(r, placeholder_rule[1])

(***************************************************************************)
(* SpecRaise: the stored data is mined across its contexts while the calls *)
(* made for one segment raise.                                             *)
(***************************************************************************)
RaisingSupports == {<<0, 1>>, <<1, 2>>}

RaisingConfidence == <<1, 2>>

MineAllContextsRaising ==
    /\ pc = "input"
    /\ \E ms \in RaisingSupports, mr \in MinerMinRows, depth \in 0..MaxDepth :
         \E failing \in DOMAIN ContextSegmenter_segment(transactions, mr, depth),
            raising \in Raises :
           LET result == ContextAwareMiner_mine_all_contexts_raising(
                             transactions, ms, RaisingConfidence, mr, depth,
                             failing, raising)
           IN  /\ min_support' = ms
               /\ min_confidence' = RaisingConfidence
               /\ min_rows' = mr
               /\ max_depth' = depth
               /\ failing_context' = Some(failing)
               /\ raising_call' = raising
               /\ all_rules' = result.rules
               /\ raised_contexts' = result.raised
    /\ pc' = "raised"
    /\ UNCHANGED <<transactions, segments, placeholder_rule, trans_list,
                   fp_itemsets, eclat_itemsets, fp_rules, eclat_rules>>
    /\ UNCHANGED <<scoreVars, causalVars>>
    /\ UNCHANGED lateVars

NextRaise == AddTransaction \/ MineAllContextsRaising

SpecRaise == Init /\ [][NextRaise]_vars

\* The pass raised for the failing segment.
FailingSegmentRaised ==
    /\ pc = "raised"
    /\ failing_context # None
    /\ failing_context[1] \in raised_contexts

RulesOfOtherSegments(rs, context) == {r \in rs : r.context # context}

(***************************************************************************)
(* C11.  If itemset mining, rule generation or rule conversion raises for  *)
(* one segment, mine_all_contexts still returns, the returned list holds   *)
(* no rule tagged with that segment's context, and the rules of every      *)
(* other segment are those returned when nothing raises for that segment.  *)
(***************************************************************************)
C11_FailingSegmentContributesNothing ==
    FailingSegmentRaised =>
        /\ \A r \in all_rules : r.context # failing_context[1]
        /\ RulesOfOtherSegments(all_rules, failing_context[1]) =
             RulesOfOtherSegments(
                 ContextAwareMiner_mine_all_contexts(transactions, min_support,
                     min_confidence, min_rows, max_depth),
                 failing_context[1])

\* What holds of the code: the other segments are untouched, and a raise in
\* mine, in generate_rules or at the first rule leaves no rule of the segment.
OtherSegmentsUntouched ==
    FailingSegmentRaised =>
        /\ RulesOfOtherSegments(all_rules, failing_context[1]) =
             RulesOfOtherSegments(
                 ContextAwareMiner_mine_all_contexts(transactions, min_support,
                     min_confidence, min_rows, max_depth),
                 failing_context[1])
        /\ raising_call.row <= 1 =>
             \A r \in all_rules : r.context # failing_context[1]

(***************************************************************************)
(* SpecScore: a list of rule objects is built, then handed to the profit   *)
(* calculator, the diversity scorer or the multi-objective scorer,         *)
(* together with a transaction DataFrame.                                  *)
(***************************************************************************)
MaxRules == 3

PriceRow(item_id, price, margin_pct) ==
    [item_id |-> item_id, price |-> price, margin_pct |-> margin_pct]

\* The DataFrames: one with a missing margin among the rows of an item,
\* one without any row of a consequent item.
ScoreFrames ==
    { << PriceRow("milk", <<2, 1>>, Some(<<1, 5>>)),
         PriceRow("bread", <<1, 1>>, Some(<<3, 10>>)),
         PriceRow("butter", <<3, 1>>, None),
         PriceRow("butter", <<1, 1>>, Some(<<1, 2>>)) >>,
      << PriceRow("milk", <<2, 1>>, Some(<<1, 5>>)) >> }

\* The rules a list is built from: items, confidence and lift.
RuleShapes ==
    {[antecedent |-> {"milk"}, consequent |-> {"bread"}, confidence |-> <<4, 5>>, lift |-> <<1, 1>>],
     [antecedent |-> {"milk"}, consequent |-> {"butter"}, confidence |-> <<1, 2>>, lift |-> <<2, 1>>],
     [antecedent |-> {"eggs"}, consequent |-> {"bread"}, confidence |-> <<1, 2>>, lift |-> <<3, 1>>]}

\* Overall, a store whose id is the empty string, and the morning time bin.
ScoreContexts ==
    {Overall,
     Context(Some(""), None, None, None, None),
     Context(None, Some("morning"), None, None, None)}

InitScore ==
    /\ pc = "input"
    /\ transactions = <<>>
    /\ min_rows = 0
    /\ max_depth = 0
    /\ segments = NoSegments
    /\ MineIdle
    /\ RuleIdle
    /\ ExtIdle

\* A new ContextualRule object is constructed and appended to the list.
AppendRule ==
    /\ pc = "input"
    /\ Len(input_rules) < MaxRules
    /\ \E shape \in RuleShapes, context \in ScoreContexts :
         /\ rule_heap' = Append(rule_heap,
                ContextualRule(shape.antecedent, shape.consequent, <<1, 10>>,
                               shape.confidence, shape.lift, context))
         /\ input_rules' = Append(input_rules, Len(rule_heap) + 1)
    /\ UNCHANGED <<pc, scored_rules, profit_result, diversity_result>>
    /\ UNCHANGED <<mineVars, segVars, ruleVars, raiseVars, causalVars>>
    /\ UNCHANGED lateVars

\* calculate_rule_profit(rule, frame) for the rule appended last.
CalculateRuleProfit ==
    /\ pc = "input"
    /\ input_rules # <<>>
    /\ \E frame \in ScoreFrames :
         /\ transactions' = frame
         /\ profit_result' = Some([rule |-> input_rules[Len(input_rules)],
               value |-> ProfitCalculator_calculate_rule_profit(
                             rule_heap[input_rules[Len(input_rules)]], frame)])
    /\ pc' = "profit"
    /\ UNCHANGED <<rule_heap, input_rules, scored_rules, diversity_result>>
    /\ UNCHANGED <<min_rows, max_depth, segments, mineVars, ruleVars, raiseVars, causalVars>>
    /\ UNCHANGED lateVars

\* calculate_diversity(rule, input_rules) for the rule appended last.
CalculateDiversity ==
    /\ pc = "input"
    /\ input_rules # <<>>
    /\ diversity_result' = Some([rule |-> input_rules[Len(input_rules)],
           value |-> DiversityScorer_calculate_diversity(
                         rule_heap[input_rules[Len(input_rules)]],
                         [j \in 1..Len(input_rules) |-> rule_heap[input_rules[j]]])])
    /\ pc' = "diversity"
    /\ UNCHANGED <<rule_heap, input_rules, scored_rules, profit_result>>
    /\ UNCHANGED <<mineVars, segVars, ruleVars, raiseVars, causalVars>>
    /\ UNCHANGED lateVars

ScoreRules ==
    /\ pc = "input"
    /\ \E frame \in ScoreFrames :
         LET result == MultiObjectiveScorer_score_rules(rule_heap, input_rules, frame)
         IN  /\ transactions' = frame
             /\ rule_heap' = result.heap
             /\ scored_rules' = result.scored_rules
    /\ pc' = "scored"
    /\ UNCHANGED <<input_rules, profit_result, diversity_result>>
    /\ UNCHANGED <<min_rows, max_depth, segments, mineVars, ruleVars, raiseVars, causalVars>>
    /\ UNCHANGED lateVars

NextScore == AppendRule \/ CalculateRuleProfit \/ CalculateDiversity \/ ScoreRules

SpecScore == InitScore /\ [][NextScore]_vars

(***************************************************************************)
(* Reference definitions for the scoring claims.                           *)
(***************************************************************************)
\* The fields of the rules of the input list, in list order.
InputRuleList == [j \in 1..Len(input_rules) |-> rule_heap[input_rules[j]]]

RECURSIVE SumOverSet(_, _)
SumOverSet(S, f) ==
    IF S = {} THEN <<0, 1>>
    ELSE LET e == CHOOSE x \in S : TRUE IN RatAdd(f[e], SumOverSet(S \ {e}, f))

MeanOverSet(S, f) == RatDiv(SumOverSet(S, f), <<Cardinality(S), 1>>)

ItemsOfRule(r) == r.antecedent \union r.consequent

\* Positions of the rules of rl whose Context equals that of r, and of the others.
SameContextPositions(rl, r) == {j \in 1..Len(rl) : rl[j].context = r.context}

OtherContextPositions(rl, r) == {j \in 1..Len(rl) : rl[j].context # r.context}

\* 1 - mean over the items of r of (same-context rules holding the item /
\* same-context rules); 1 when at most one rule has the context.
ExpectedDiversity(rl, r) ==
    LET same  == SameContextPositions(rl, r)
        share == [item \in ItemsOfRule(r) |->
                    Rat(Cardinality({j \in same : item \in ItemsOfRule(rl[j])}),
                        Cardinality(same))]
    IN  IF Cardinality(same) <= 1 THEN <<1, 1>>
        ELSE RatSub(<<1, 1>>, MeanOverSet(ItemsOfRule(r), share))

\* rl without the positions of K.
WithoutPositions(rl, K) ==
    LET keep == (1..Len(rl)) \ K
    IN  [k \in 1..Cardinality(keep) |->
            rl[CHOOSE i \in keep : Cardinality({j \in keep : j < i}) = k - 1]]

\* The lists that differ from rl only in rules of contexts other than r's:
\* some of them removed, one of them changed, or one more added.
OtherContextVariants(rl, r) ==
    LET others == OtherContextPositions(rl, r)
        fresh  == {ContextualRule(sh.antecedent, sh.consequent, <<1, 10>>,
                                  sh.confidence, sh.lift, ctx) :
                     sh \in RuleShapes, ctx \in ScoreContexts \ {r.context}}
    IN  {WithoutPositions(rl, K) : K \in SUBSET others}
        \union {[rl EXCEPT ![j] = f] : j \in others, f \in fresh}
        \union {Append(rl, f) : f \in fresh}

ConsequentRows(frame, r) == {i \in 1..Len(frame) : frame[i].item_id \in r.consequent}

(***************************************************************************)
(* C13.  calculate_rule_profit(rule, transactions) is (mean price of the   *)
(* rows whose item is in rule.consequent) x (mean margin fraction of those *)
(* rows) x rule.confidence, and 0 when no row matches.  The mean margin is *)
(* taken over the rows that carry a margin.                                *)
(***************************************************************************)
C13_ProfitIsPriceMarginConfidence ==
    pc = "profit" =>
        LET res  == profit_result[1]
            r    == rule_heap[res.rule]
            rows == ConsequentRows(transactions, r)
            with_margin == {i \in rows : transactions[i].margin_pct # None}
        IN  IF rows = {} THEN res.value = <<0, 1>>
            ELSE with_margin # {} =>
                 res.value =
                   RatMul(RatMul(MeanOverSet(rows, [i \in rows |-> transactions[i].price]),
                                 MeanOverSet(with_margin,
                                     [i \in with_margin |-> transactions[i].margin_pct[1]])),
                          r.confidence)

(***************************************************************************)
(* C13, as the code computes it: a row without a margin counts with the    *)
(* default margin 0.25 in the mean margin.                                 *)
(***************************************************************************)
C13_ProfitWithDefaultMargin ==
    pc = "profit" =>
        LET res  == profit_result[1]
            r    == rule_heap[res.rule]
            rows == ConsequentRows(transactions, r)
            margin == [i \in rows |->
                         IF transactions[i].margin_pct # None
                         THEN transactions[i].margin_pct[1] ELSE <<1, 4>>]
        IN  IF rows = {} THEN res.value = <<0, 1>>
            ELSE res.value =
                   RatMul(RatMul(MeanOverSet(rows, [i \in rows |-> transactions[i].price]),
                                 MeanOverSet(rows, margin)),
                          r.confidence)

\* The consequent has a row with a margin and a row without one.
C13_Witness ==
    /\ pc = "profit"
    /\ \E i, j \in ConsequentRows(transactions, rule_heap[profit_result[1].rule]) :
         transactions[i].margin_pct = None /\ transactions[j].margin_pct # None
    /\ profit_result[1].value = <<3, 8>>

\* The example of the tests: price 1.0, margin 0.3, confidence 0.8 give 0.24.
ProfitExample ==
    (/\ pc = "profit"
     /\ Len(transactions) = 4
     /\ rule_heap[profit_result[1].rule].consequent = {"bread"}
     /\ rule_heap[profit_result[1].rule].confidence = <<4, 5>>)
        => profit_result[1].value = <<6, 25>>

\* The objects of the input list whose Context equals that of object o.
SameContextObjects(o) ==
    SelectSeq(input_rules, LAMBDA x : rule_heap[x].context = rule_heap[o].context)

LiftsOf(objects) == {rule_heap[objects[i]].lift : i \in 1..Len(objects)}

IsMaxLift(o, objects) == \A l \in LiftsOf(objects) : RatGeq(rule_heap[o].lift, l)

IsMinLift(o, objects) == \A l \in LiftsOf(objects) : RatGeq(l, rule_heap[o].lift)

\* The normalized lift score_rules used for object o.
NormLift(o) == MultiObjectiveScorer_norm_lift(rule_heap, input_rules, o)

(***************************************************************************)
(* C14.  In score_rules, within each context a rule with the context's     *)
(* maximum lift gets normalized lift 1 and a rule with its minimum lift    *)
(* gets 0 (a context whose lifts are all equal normalizes to 0, the        *)
(* degenerate case), and the normalized lift of a rule is what it is when  *)
(* the list holds the rules of its own Context only.                       *)
(***************************************************************************)
C14_LiftNormalizedPerContext ==
    pc = "scored" =>
        \A o \in Range(input_rules) :
            LET same == SameContextObjects(o)
            IN  /\ Cardinality(LiftsOf(same)) > 1 =>
                     /\ IsMaxLift(o, same) => NormLift(o) = <<1, 1>>
                     /\ IsMinLift(o, same) => NormLift(o) = <<0, 1>>
                /\ NormLift(o) = MultiObjectiveScorer_norm_lift(rule_heap, same, o)

\* No two rules of the list have different Contexts with the same string.
ContextStringsDistinct ==
    \A x, y \in Range(input_rules) :
        Context_str(rule_heap[x].context) = Context_str(rule_heap[y].context)
            => rule_heap[x].context = rule_heap[y].context

\* What holds of the code: the normalization is per context string.
LiftNormalizedPerContextString ==
    (pc = "scored" /\ ContextStringsDistinct) =>
        \A o \in Range(input_rules) :
            LET same == SameContextObjects(o)
            IN  /\ Cardinality(LiftsOf(same)) > 1 =>
                     /\ IsMaxLift(o, same) => NormLift(o) = <<1, 1>>
                     /\ IsMinLift(o, same) => NormLift(o) = <<0, 1>>
                /\ NormLift(o) = MultiObjectiveScorer_norm_lift(rule_heap, same, o)

\* The concatenation of the groups score_rules forms (one per context
\* string, in order of first appearance, input order inside a group): the
\* position of the object at index i of the input list.
ConcatenationPlace(i) ==
    LET key(j) == Context_str(rule_heap[input_rules[j]].context)
        first(j) == CHOOSE f \in 1..j : key(f) = key(j) /\ \A g \in 1..(f - 1) : key(g) # key(j)
    IN  <<first(i), i>>

PlaceBefore(p, q) == p[1] < q[1] \/ (p[1] = q[1] /\ p[2] < q[2])

IndexInInput(o) == CHOOSE i \in 1..Len(input_rules) : input_rules[i] = o

OverallScore(o) == rule_heap[o].overall_score[1]

(***************************************************************************)
(* C15.  score_rules returns a list of exactly the input rule objects,     *)
(* each with profit_score, diversity_score and overall_score set, in       *)
(* non-increasing overall_score order; rules of equal overall_score keep   *)
(* the order they have in the concatenation of the context groups.         *)
(***************************************************************************)
C15_ScoredSortedStable ==
    pc = "scored" =>
        /\ Len(scored_rules) = Len(input_rules)
        /\ \A o \in Range(input_rules) \union Range(scored_rules) :
             Cardinality({i \in 1..Len(scored_rules) : scored_rules[i] = o})
               = Cardinality({i \in 1..Len(input_rules) : input_rules[i] = o})
        /\ \A o \in Range(input_rules) :
             /\ rule_heap[o].profit_score # None
             /\ rule_heap[o].diversity_score # None
             /\ rule_heap[o].overall_score # None
        /\ \A i, j \in 1..Len(scored_rules) :
             i < j =>
               /\ RatGeq(OverallScore(scored_rules[i]), OverallScore(scored_rules[j]))
               /\ OverallScore(scored_rules[i]) = OverallScore(scored_rules[j]) =>
                    PlaceBefore(ConcatenationPlace(IndexInInput(scored_rules[i])),
                                ConcatenationPlace(IndexInInput(scored_rules[j])))

\* Three rules of two context groups were scored; two of them tie and one
\* scores strictly higher, and the sort moved a rule.
C15_Witness ==
    /\ pc = "scored"
    /\ Len(scored_rules) = 3
    /\ scored_rules # input_rules
    /\ \E i, j \in 1..3 :
         /\ i < j
         /\ OverallScore(scored_rules[i]) = OverallScore(scored_rules[j])
    /\ \E i, j \in 1..3 :
         RatLt(OverallScore(scored_rules[j]), OverallScore(scored_rules[i]))
    /\ \E x, y \in Range(input_rules) :
         Context_str(rule_heap[x].context) # Context_str(rule_heap[y].context)

(***************************************************************************)
(* Uplift estimation: baskets are appended to the transaction table, then  *)
(* estimate_uplift is called any number of times on the same estimator,    *)
(* each call with a rule and possibly a fault.                             *)
(***************************************************************************)
MaxBaskets == 6

\* The number of estimate_uplift calls made on one estimator.
MaxCalls == 2

\* The baskets: antecedent with consequent, antecedent without, neither.
BasketKinds == {<<"a", "b">>, <<"a", "c">>, <<"c">>}

ItemPrice ==
    [a |-> <<2, 1>>, b |-> <<4, 1>>, c |-> <<1, 1>>,
     d |-> <<1, 1>>, e |-> <<1, 1>>, f |-> <<1, 1>>]

ItemMargin ==
    [a |-> <<1, 4>>, b |-> <<1, 2>>, c |-> <<1, 5>>,
     d |-> <<1, 5>>, e |-> <<1, 5>>, f |-> <<1, 5>>]

BasketRows(tid, kind) ==
    [i \in 1..Len(kind) |->
       [transaction_id |-> tid, item_id |-> kind[i],
        price |-> ItemPrice[kind[i]], margin_pct |-> ItemMargin[kind[i]]]]

CausalRule(ant, cons) ==
    ContextualRule(ant, cons, <<1, 10>>, <<1, 2>>, <<1, 1>>, Overall)

CausalRules == {CausalRule({"a"}, {"b"}), CausalRule({"c"}, {"b"})}

\* The default threshold and the threshold 1.0.
CausalThresholds == {<<1, 20>>, <<1, 1>>}

BasketCount == Cardinality({transactions[i].transaction_id : i \in 1..Len(transactions)})

InitCausal ==
    /\ pc = "input"
    /\ transactions = <<>>
    /\ min_rows = 0
    /\ max_depth = 0
    /\ segments = NoSegments
    /\ MineIdle
    /\ RuleIdle
    /\ RaiseIdle
    /\ ScoreIdle
    /\ LateIdle
    /\ \E threshold \in CausalThresholds : estimator = CausalEstimator_init(threshold)
    /\ uplift_call = None
    /\ uplift_result = None
    /\ experiment = None
    /\ learner_log = <<>>

AddBasket ==
    /\ pc = "input"
    /\ BasketCount < MaxBaskets
    /\ \E kind \in BasketKinds :
         transactions' = transactions \o BasketRows(BasketCount + 1, kind)
    /\ UNCHANGED <<pc, min_rows, max_depth, segments, mineVars, ruleVars>>
    /\ UNCHANGED extVars

EstimateUplift ==
    /\ pc \in {"input", "estimated"}
    /\ uplift_call # None => uplift_call[1].number < MaxCalls
    /\ \E rule \in CausalRules, fault \in Faults :
         LET out == CausalEstimator_estimate_uplift(estimator, rule, transactions, fault)
         IN  /\ estimator' = out.self
             /\ uplift_result' = Some(out.result)
             /\ experiment' = Some(out.experiment)
             /\ uplift_call' = Some([rule |-> rule, fault |-> fault, caught |-> out.caught,
                                      np_random |-> estimator.np_random,
                                      number |-> IF uplift_call = None THEN 1
                                                 ELSE uplift_call[1].number + 1])
    /\ pc' = "estimated"
    /\ UNCHANGED <<segVars, mineVars, ruleVars, raiseVars, scoreVars, learner_log>>
    /\ UNCHANGED lateVars

NextCausal == AddBasket \/ EstimateUplift

SpecCausal == InitCausal /\ [][NextCausal]_vars

(***************************************************************************)
(* Reference definitions for the uplift claims.                            *)
(***************************************************************************)
TransactionsOf(frame) == {frame[i].transaction_id : i \in 1..Len(frame)}

\* The transactions that contain an antecedent item of the rule of the call.
AntecedentTransactions ==
    {transactions[i].transaction_id :
       i \in {j \in 1..Len(transactions) :
                transactions[j].item_id \in uplift_call[1].rule.antecedent}}

SimulationReturned == pc = "estimated" /\ uplift_call[1].fault # "simulate"

ExperimentNonEmpty ==
    experiment[1].control_features # <<>> \/ experiment[1].treatment_features # <<>>

\* C16: simulate_experiment returns empty tables when fewer than 10 distinct
\* transactions contain an antecedent item, and when the final treatment
\* group or the final control pool holds fewer than 3 distinct transactions;
\* it returns non-empty tables only when all three counts meet their floors.
C16_FloorsCountTransactions ==
    SimulationReturned =>
        (ExperimentNonEmpty =>
            /\ Cardinality(AntecedentTransactions) >= 10
            /\ Cardinality(TransactionsOf(experiment[1].treatment_group)) >= 3
            /\ Cardinality(TransactionsOf(experiment[1].all_control)) >= 3)

\* What the code does: the three floors are floors on row counts.
FloorsCountRows ==
    SimulationReturned =>
        (ExperimentNonEmpty <=>
            /\ Len(experiment[1].trans_with_antecedent) >= 10
            /\ Len(experiment[1].treatment_group) >= 3
            /\ Len(experiment[1].all_control) >= 3)

\* The call reached the rate computation: both tables had 3 rows or more
\* and neither the simulation, the fit nor the rate computation failed.
RatesComputed ==
    /\ pc = "estimated"
    /\ Len(experiment[1].control_features) >= 3
    /\ Len(experiment[1].treatment_features) >= 3
    /\ uplift_call[1].caught \in {"none", "ci"}

OutcomeRate(features) == Mean([i \in 1..Len(features) |-> <<features[i].outcome, 1>>])

RawControlRate == OutcomeRate(experiment[1].control_features)

RawTreatmentRate == OutcomeRate(experiment[1].treatment_features)

UpliftFieldsZero ==
    /\ uplift_result[1].incremental_attach_rate = Zero
    /\ uplift_result[1].incremental_revenue = Zero
    /\ uplift_result[1].incremental_margin = Zero

RatesPopulated ==
    /\ uplift_result[1].control_rate = RawControlRate
    /\ uplift_result[1].treatment_rate = RawTreatmentRate
    /\ uplift_result[1].sample_size =
          Len(experiment[1].control_features) + Len(experiment[1].treatment_features)

BelowThresholdZeroed ==
    (RatesComputed /\ RatLt(RatSub(RawTreatmentRate, RawControlRate),
                            estimator.min_incremental_lift))
        => (UpliftFieldsZero /\ RatesPopulated)

FullUplift == RatesComputed /\ RawTreatmentRate = <<1, 1>> /\ RawControlRate = Zero

AllZeroNoSample ==
    /\ UpliftFieldsZero
    /\ uplift_result[1].control_rate = Zero
    /\ uplift_result[1].treatment_rate = Zero
    /\ uplift_result[1].sample_size = 0

Returned == pc = "estimated" /\ uplift_result # None

EmptyFrameAllZero == (Returned /\ transactions = <<>>) => AllZeroNoSample

OuterFailuresHappen ==
    Returned => uplift_call[1].caught \notin {"simulate", "fit", "rates"}

\* The same call on an estimator constructed for it, never used before.
FreshCall ==
    CausalEstimator_estimate_uplift(
        CausalEstimator_init(estimator.min_incremental_lift),
        uplift_call[1].rule, transactions, uplift_call[1].fault)

\* C20: estimate_uplift is deterministic and history-independent: with the
\* same threshold, rule and transactions (and meeting the same fault) a call
\* returns the UpliftResult, all fields, that a call on a fresh estimator
\* returns, whatever calls were made on the estimator before.
C20_HistoryIndependent ==
    Returned => uplift_result[1] = FreshCall.result

\* A later call that started from a generator other calls had drawn from,
\* and that split the transactions and computed an interval.
C20_Witness ==
    /\ Returned
    /\ uplift_call[1].number > 1
    /\ uplift_call[1].np_random = "drawn"
    /\ uplift_result[1].confidence_interval # None
    /\ uplift_call[1].fault = "none"

(***************************************************************************)
(* A TLearner under any sequence of fit and predict calls.                 *)
(***************************************************************************)
MaxLearnerCalls == 4

PredictMethods ==
    {"predict_uplift", "predict_treatment_probability", "predict_control_probability"}

InitLearner ==
    /\ pc = "learner"
    /\ transactions = <<>>
    /\ min_rows = 0
    /\ max_depth = 0
    /\ segments = NoSegments
    /\ MineIdle
    /\ RuleIdle
    /\ ExtIdle

\* fit, which returns or raises from the control or the treatment model.
Fit ==
    /\ Len(learner_log) < MaxLearnerCalls
    /\ \E fails \in {"none", "control", "treatment"} :
         LET out == TLearner_fit(estimator.t_learner, fails)
         IN  /\ estimator' = [estimator EXCEPT !.t_learner = out.learner]
             /\ learner_log' = Append(learner_log,
                    [call |-> "fit",
                     outcome |-> IF out.raised THEN "raised" ELSE "returned"])
    /\ UNCHANGED <<pc, segVars, mineVars, ruleVars, raiseVars, scoreVars>>
    /\ UNCHANGED <<uplift_call, uplift_result, experiment>>
    /\ UNCHANGED lateVars

\* One of the three predict methods.
Predict ==
    /\ Len(learner_log) < MaxLearnerCalls
    /\ \E method \in PredictMethods, proba_raises \in BOOLEAN :
         learner_log' = Append(learner_log,
             [call |-> method,
              outcome |-> TLearner_predict(estimator.t_learner, method, proba_raises)])
    /\ UNCHANGED <<pc, segVars, mineVars, ruleVars, raiseVars, scoreVars>>
    /\ UNCHANGED <<estimator, uplift_call, uplift_result, experiment>>
    /\ UNCHANGED lateVars

NextLearner == Fit \/ Predict

SpecLearner == InitLearner /\ [][NextLearner]_vars

\* The positions of the fit calls before position k of the log.
FitsBefore(k) == {j \in 1..(k - 1) : learner_log[j].call = "fit"}

\* Some fit before position k returned and no later fit before k raised:
\* the last fit before k returned.
FittedAt(k) ==
    /\ FitsBefore(k) # {}
    /\ learner_log[CHOOSE j \in FitsBefore(k) : \A i \in FitsBefore(k) : i <= j].outcome
          = "returned"

\* C19: in any sequence of fit and predict calls on one TLearner, each of the
\* three predict methods raises ValueError unless some fit has completed and
\* no later fit has failed; a fit that raises leaves the learner unfitted
\* even if an earlier fit had succeeded.
C19_PredictNeedsLastFitSucceeded ==
    /\ \A k \in 1..Len(learner_log) :
          (learner_log[k].call \in PredictMethods /\ ~FittedAt(k))
              => learner_log[k].outcome = "ValueError"
    /\ estimator.t_learner.is_fitted <=> FittedAt(Len(learner_log) + 1)

\* A fit returned, a later fit raised, and a predict after it raised
\* ValueError.
C19_Witness ==
    \E i, j, k \in 1..Len(learner_log) :
        /\ i < j /\ j < k
        /\ learner_log[i] = [call |-> "fit", outcome |-> "returned"]
        /\ learner_log[j] = [call |-> "fit", outcome |-> "raised"]
        /\ learner_log[k].call \in PredictMethods
        /\ learner_log[k].outcome = "ValueError"

(***************************************************************************)
(* simulate_experiment called on its own, over baskets of several sizes    *)
(* with and without the antecedent.                                        *)
(***************************************************************************)
ExperimentBasketKinds ==
    {<<"a", "b">>, <<"a", "d", "e", "f">>, <<"c">>, <<"c", "d">>}

AddAnyBasket ==
    /\ pc = "input"
    /\ BasketCount < MaxBaskets
    /\ \E kind \in ExperimentBasketKinds :
         transactions' = transactions \o BasketRows(BasketCount + 1, kind)
    /\ UNCHANGED <<pc, min_rows, max_depth, segments, mineVars, ruleVars>>
    /\ UNCHANGED extVars

SimulateExperiment ==
    /\ pc = "input"
    /\ \E rule \in CausalRules, fault \in {"none", "simulate"} :
         LET out == TreatmentSimulator_simulate_experiment(
                        estimator.np_random, transactions, rule, fault)
         IN  /\ estimator' = [estimator EXCEPT !.np_random = out.np_random]
             /\ experiment' = Some(out)
             /\ uplift_call' = Some([rule |-> rule, fault |-> fault,
                                      caught |-> IF fault = "simulate" THEN "simulate"
                                                 ELSE "none",
                                      np_random |-> estimator.np_random,
                                      number |-> 1])
    /\ pc' = "simulated"
    /\ UNCHANGED <<segVars, mineVars, ruleVars, raiseVars, scoreVars>>
    /\ UNCHANGED <<uplift_result, learner_log>>
    /\ UNCHANGED lateVars

NextExperiment == AddAnyBasket \/ SimulateExperiment

SpecExperiment == InitCausal /\ [][NextExperiment]_vars

(***************************************************************************)
(* Reference definitions for the composition of the experiment tables.     *)
(***************************************************************************)
ExperimentReturned == pc = "simulated" /\ uplift_call[1].fault = "none"

FeatureIds(features) == {features[i].transaction_id : i \in 1..Len(features)}

OneRowPerTransaction(features) ==
    \A i, j \in 1..Len(features) :
        features[i].transaction_id = features[j].transaction_id => i = j

RowsIn(tids) ==
    Cardinality({i \in 1..Len(transactions) : transactions[i].transaction_id \in tids})

AbsDiff(a, b) == IF a >= b THEN a - b ELSE b - a

\* The antecedent-negative transactions whose basket size s is within
\* max(1, avg / 2) of the mean basket size avg = R / N of the
\* antecedent-positive ones: 2 |s N - R| <= max(2 N, R).
MatchedNegativeTransactions ==
    LET N == Cardinality(AntecedentTransactions)
        R == RowsIn(AntecedentTransactions)
    IN  {t \in TransactionsOf(transactions) \ AntecedentTransactions :
           2 * AbsDiff(RowsIn({t}) * N, R) <= Max(2 * N, R)}

ContextStores == {None, Some(""), Some("1")}

ContextTimeBins == {None, Some(""), Some("morning")}

ContextWeekdays == {None, Some("weekend")}

ContextQuarters == {None, Some(0), Some(4)}

ContextFestivals == {None, Some(""), Some("diwali")}

InitContext ==
    /\ pc = "input"
    /\ transactions = <<>>
    /\ min_rows = 0
    /\ max_depth = 0
    /\ segments = NoSegments
    /\ MineIdle
    /\ RuleIdle
    /\ ExtIdle

ConstructContext ==
    /\ pc = "input"
    /\ \E s \in ContextStores, t \in ContextTimeBins, w \in ContextWeekdays,
          q \in ContextQuarters, f \in ContextFestivals :
         context_arg' = Some(Context(s, t, w, q, f))
    /\ pc' = "constructed"
    /\ UNCHANGED <<context_text, segVars, mineVars, ruleVars>>
    /\ UNCHANGED <<raiseVars, scoreVars, causalVars, realtimeVars, serviceVars>>

ContextStr ==
    /\ pc = "constructed"
    /\ context_text' = Some(Context_str(context_arg[1]))
    /\ pc' = "rendered"
    /\ UNCHANGED <<context_arg, segVars, mineVars, ruleVars>>
    /\ UNCHANGED <<raiseVars, scoreVars, causalVars, realtimeVars, serviceVars>>

NextContext == ConstructContext \/ ContextStr

SpecContext == InitContext /\ [][NextContext]_vars

\* The parts in display order store, festival, time-bin, weekday/weekend,
\* quarter, of the fields in the set `given'; the quarter is left out when
\* the festival is among them; "Overall" when there is none.
PartsInDisplayOrder(c, given) ==
    LET store    == IF "store_id" \in given
                    THEN <<Part("Store ", c.store_id[1])>> ELSE <<>>
        festival == IF "festival_period" \in given
                    THEN <<Part("", Title(c.festival_period[1]))>> ELSE <<>>
        time     == IF "time_bin" \in given
                    THEN <<Part("", Title(c.time_bin[1]))>> ELSE <<>>
        weekday  == IF "weekday_weekend" \in given
                    THEN <<Part("", Title(c.weekday_weekend[1]))>> ELSE <<>>
        quarter  == IF "quarter" \in given /\ "festival_period" \notin given
                    THEN <<Part("Q", IntText(c.quarter[1]))>> ELSE <<>>
        all      == store \o festival \o time \o weekday \o quarter
    IN  IF all = <<>> THEN <<Part("", "Overall")>> ELSE all

\* The fields that were given a value (not None).
GivenFields(c) == {fld \in ContextFields : c[fld] # None}

\* The fields whose value is truthy: not None, not "", not 0.
TruthyFields(c) ==
    {fld \in GivenFields(c) :
        IF fld = "quarter" THEN c[fld][1] # 0 ELSE c[fld][1] # ""}

ContextExample == Context(Some("1"), None, None, Some(4), Some("diwali"))

ExampleRendersStoreDiwali ==
    Context_str(ContextExample) = <<Part("Store ", "1"), Part("", "Diwali")>>

\* C23: str(context) lists the set fields in the order store, festival,
\* time-bin, weekday/weekend, quarter, omits the quarter whenever a festival
\* is set, and is "Overall" exactly when no field is set; the example
\* Context(store_id="1", festival_period="diwali", quarter=4) renders as
\* "Store 1 + Diwali".
C23_SetFieldsInDisplayOrder ==
    pc = "rendered" =>
        /\ context_text[1] = PartsInDisplayOrder(context_arg[1], GivenFields(context_arg[1]))
        /\ (context_text[1] = <<Part("", "Overall")>>) <=> (GivenFields(context_arg[1]) = {})
        /\ ExampleRendersStoreDiwali

\* C23 as the code has it: a field counts only when it is truthy, so an
\* empty string or a quarter 0 is passed over like None.
C23_TruthyFieldsInDisplayOrder ==
    pc = "rendered" =>
        /\ context_text[1] = PartsInDisplayOrder(context_arg[1], TruthyFields(context_arg[1]))
        /\ (context_text[1] = <<Part("", "Overall")>>) <=> (TruthyFields(context_arg[1]) = {})
        /\ ExampleRendersStoreDiwali

\* A festival and a quarter are both given and the quarter is left out.
C23_Witness ==
    /\ pc = "rendered"
    /\ {"festival_period", "quarter", "time_bin"} \subseteq TruthyFields(context_arg[1])
    /\ context_text[1] = <<Part("", "Diwali"), Part("", "Morning")>>

(***************************************************************************)
(* Reference definitions for the degenerate ranges of score_rules.         *)
(***************************************************************************)
\* The group score_rules puts object o in.
GroupOf(o) == MultiObjectiveScorer_ctx_rules(rule_heap, input_rules, o)

ProfitOf(o) == ProfitCalculator_calculate_rule_profit(rule_heap[o], transactions)

AllLiftsEqual(objects) ==
    \A i, j \in 1..Len(objects) : rule_heap[objects[i]].lift = rule_heap[objects[j]].lift

AllProfitsEqual(objects) ==
    \A i, j \in 1..Len(objects) : ProfitOf(objects[i]) = ProfitOf(objects[j])

NormProfit(o) == MultiObjectiveScorer_norm_profit(rule_heap, input_rules, transactions, o)

\* The weighted sum with the given normalized lift and profit.
WeightedScore(o, norm_lift, norm_profit) ==
    RatAdd(RatAdd(RatMul(MultiObjectiveScorer_weights.lift, norm_lift),
                  RatMul(MultiObjectiveScorer_weights.profit_margin, norm_profit)),
           RatAdd(RatMul(MultiObjectiveScorer_weights.diversity,
                         rule_heap[o].diversity_score[1]),
                  RatMul(MultiObjectiveScorer_weights.confidence, rule_heap[o].confidence)))

\* C26: when all rules of one context group have the same lift (or the same
\* profit_score), a group of a single rule included, score_rules completes
\* without a division by zero and the normalized value of that term is 0 for
\* every rule of the group.
C26_DegenerateRangeNormalizesToZero ==
    pc = "scored" =>
        \A i \in 1..Len(scored_rules) :
            LET o == scored_rules[i]
                lift_term == IF AllLiftsEqual(GroupOf(o)) THEN Zero ELSE NormLift(o)
                profit_term == IF AllProfitsEqual(GroupOf(o)) THEN Zero ELSE NormProfit(o)
            IN  /\ AllLiftsEqual(GroupOf(o)) => NormLift(o) = Zero
                /\ AllProfitsEqual(GroupOf(o)) => NormProfit(o) = Zero
                /\ rule_heap[o].overall_score # None
                /\ rule_heap[o].overall_score[1][2] > 0
                /\ rule_heap[o].overall_score[1] = WeightedScore(o, lift_term, profit_term)

\* A scored list with a group of one rule, of non-zero lift and profit, and
\* a group of several rules of equal lift.
C26_Witness ==
    /\ pc = "scored"
    /\ \E i, j \in 1..Len(scored_rules) :
          /\ Len(GroupOf(scored_rules[i])) = 1
          /\ Len(GroupOf(scored_rules[j])) >= 2
          /\ AllLiftsEqual(GroupOf(scored_rules[j]))
          /\ rule_heap[scored_rules[i]].lift # Zero
          /\ ProfitOf(scored_rules[i]) # Zero

(***************************************************************************)
(* Reference definitions for the itemsets of EclatMiner.mine.              *)
(***************************************************************************)
ItemsIn(tl) == UNION Range(tl)

\* The itemsets contained in at least min_support x T of the T transactions,
\* each with the fraction of the transactions that contain it.
ItemsetsMeetingFloor(tl, ms) ==
    {[itemsets |-> S, support |-> SupportOf(tl, S)] :
        S \in {SS \in (SUBSET ItemsIn(tl)) \ {{}} :
                 ContainCount(tl, SS) * ms[2] >= ms[1] * Len(tl)}}

\* C25: EclatMiner.mine returns exactly the itemsets whose tid-list
\* intersection has size >= min_support x T: every returned itemset has
\* support >= min_support, every itemset of any size meeting the floor is
\* returned, and each reported support is (transactions containing it) / T.
C25_EclatReturnsItemsetsMeetingFloor ==
    (pc \in {"mined", "rules"} /\ trans_list # <<>>) =>
        /\ ~eclat_itemsets.raised
        /\ eclat_itemsets.itemsets = ItemsetsMeetingFloor(trans_list, min_support)

\* What the code returns: the itemsets of one or two items whose count is at
\* least int(min_support x T), with exact supports.
EclatReturnsSinglesAndPairs ==
    (pc \in {"mined", "rules"} /\ trans_list # <<>>) =>
        eclat_itemsets.itemsets =
            {[itemsets |-> S, support |-> SupportOf(trans_list, S)] :
                S \in {SS \in (SUBSET ItemsIn(trans_list)) \ {{}} :
                         /\ Cardinality(SS) <= 2
                         /\ ContainCount(trans_list, SS) >=
                               (min_support[1] * Len(trans_list)) \div min_support[2]}}

(***************************************************************************)
(* Reference definitions for the segments mined by mine_all_contexts.      *)
(***************************************************************************)
\* The clean transactions of df as a list of item sets.
CleanTransactions(df) ==
    LET tids == SetToSeq(CleanTids(df))
    IN  [i \in 1..Len(tids) |-> ItemsOfTid(df, tids[i])]

\* The rules FP-growth mining yields for the clean transactions of df: none
\* when fpgrowth rejects the min_support (the segment's except branch).
RulesMinedFrom(df, ms, mc, ctx) ==
    LET tl == CleanTransactions(df)
    IN  IF ms[1] = 0 THEN {}
        ELSE {ContextualRule(rule.antecedents, rule.consequents, rule.support,
                             rule.confidence, rule.lift, ctx) :
                rule \in ExpectedRules(tl, ItemsetsMeetingFloor(tl, ms), mc)}

\* C24: mine_all_contexts returns no rule for a segment that has fewer than
\* 5 transactions left after dropping missing item values and transactions
\* with no clean item, and the rules it returns for a segment with 5 or more
\* such transactions are those mined from them.
C24_SegmentsBelowFiveSkipped ==
    pc = "mined" =>
        LET segs == ContextSegmenter_segment(transactions, min_rows, max_depth)
        IN  \A ctx \in DOMAIN segs :
              LET returned == {r \in all_rules : r.context = ctx}
              IN  IF Cardinality(CleanTids(segs[ctx])) < MinTransactionsToMine
                  THEN returned = {}
                  ELSE returned = RulesMinedFrom(segs[ctx], min_support, min_confidence, ctx)

\* Overall holds six transactions of which exactly five have a clean item
\* and is mined; a store segment with fewer than five is skipped.
C24_Witness ==
    /\ pc = "mined"
    /\ Cardinality(TransactionIds(transactions)) = 6
    /\ Cardinality(CleanTids(transactions)) = 5
    /\ \E r \in all_rules : r.context = Overall
    /\ LET segs == ContextSegmenter_segment(transactions, min_rows, max_depth)
       IN  \E ctx \in DOMAIN segs :
             /\ ctx # Overall
             /\ Cardinality(CleanTids(segs[ctx])) \in 1..4
             /\ \A r \in all_rules : r.context # ctx

(***************************************************************************)
(* RealTimeManager (app/api/realtime.py) and the /ws/soul endpoint          *)
(* (app/api/main.py).  Everything runs on one event loop: a coroutine runs  *)
(* until its next await.  A websocket is its index in `websockets'; its     *)
(* endpoint is "accepting" (inside connect, awaiting accept), "receiving"   *)
(* (in the receive_text loop) or "closed" (after disconnect).  A            *)
(* start_simulation task is "created" (scheduled by create_task, not yet    *)
(* run), "sleeping" (awaiting asyncio.sleep), "broadcasting" (awaiting      *)
(* broadcast) or "done" (the while condition was found false).              *)
(***************************************************************************)
MaxWebsockets == 3

MaxSimTasks == 3

\* connect after `await websocket.accept()': the append, the test of the
\* flag and create_task run without an await between them.
RealTimeManager_connect(self, websocket) ==
    [self |-> [active_connections |-> Append(self.active_connections, websocket),
               is_simulating |-> TRUE],
     create_task |-> ~self.is_simulating]

\* disconnect: remove the websocket; the flag is reset when none is left.
RealTimeManager_disconnect(self, websocket) ==
    LET remaining == SelectSeq(self.active_connections, LAMBDA w : w # websocket)
    IN  [active_connections |-> remaining,
         is_simulating |-> IF remaining = <<>> THEN FALSE ELSE self.is_simulating]

\* `while self.is_simulating:' evaluated by a task.
RealTimeManager_loop_test(self) == IF self.is_simulating THEN "sleeping" ELSE "done"

InitRealTime ==
    /\ pc = "input"
    /\ transactions = <<>>
    /\ min_rows = 0
    /\ max_depth = 0
    /\ segments = NoSegments
    /\ MineIdle
    /\ RuleIdle
    /\ ExtIdle

RealTimeUnchanged ==
    UNCHANGED <<pc, segVars, mineVars, ruleVars, raiseVars, scoreVars, causalVars,
                contextVars, serviceVars>>

\* A task scheduled by create_task is already in the event loop's ready
\* queue: it runs before the callback of any I/O or timer that completes
\* later.
NoTaskCreated == \A t \in DOMAIN sim_tasks : sim_tasks[t] # "created"

\* A client opens /ws/soul: websocket_endpoint calls connect, which awaits
\* accept.
WebsocketEndpoint ==
    /\ NoTaskCreated
    /\ Len(websockets) < MaxWebsockets
    /\ websockets' = Append(websockets, "accepting")
    /\ UNCHANGED <<manager, sim_tasks>>
    /\ RealTimeUnchanged

\* accept returns: the rest of connect, then the endpoint awaits
\* receive_text.
Connect ==
    /\ NoTaskCreated
    /\ \E w \in DOMAIN websockets :
         /\ websockets[w] = "accepting"
         /\ LET result == RealTimeManager_connect(manager, w)
            IN  /\ result.create_task => Len(sim_tasks) < MaxSimTasks
                /\ manager' = result.self
                /\ sim_tasks' = IF result.create_task
                                THEN Append(sim_tasks, "created") ELSE sim_tasks
         /\ websockets' = [websockets EXCEPT ![w] = "receiving"]
    /\ RealTimeUnchanged

\* receive_text raises WebSocketDisconnect: the endpoint calls disconnect.
Disconnect ==
    /\ NoTaskCreated
    /\ \E w \in DOMAIN websockets :
         /\ websockets[w] = "receiving"
         /\ manager' = RealTimeManager_disconnect(manager, w)
         /\ websockets' = [websockets EXCEPT ![w] = "closed"]
    /\ UNCHANGED sim_tasks
    /\ RealTimeUnchanged

\* The event loop first runs a created task: it reaches its while test.
StartSimulation ==
    /\ \E t \in DOMAIN sim_tasks :
         /\ sim_tasks[t] = "created"
         /\ sim_tasks' = [sim_tasks EXCEPT ![t] = RealTimeManager_loop_test(manager)]
    /\ UNCHANGED <<manager, websockets>>
    /\ RealTimeUnchanged

\* asyncio.sleep returns: the task builds an event and awaits broadcast.
SleepReturns ==
    /\ NoTaskCreated
    /\ \E t \in DOMAIN sim_tasks :
         /\ sim_tasks[t] = "sleeping"
         /\ sim_tasks' = [sim_tasks EXCEPT ![t] = "broadcasting"]
    /\ UNCHANGED <<manager, websockets>>
    /\ RealTimeUnchanged

\* broadcast returns: the task is back at its while test.
BroadcastReturns ==
    /\ NoTaskCreated
    /\ \E t \in DOMAIN sim_tasks :
         /\ sim_tasks[t] = "broadcasting"
         /\ sim_tasks' = [sim_tasks EXCEPT ![t] = RealTimeManager_loop_test(manager)]
    /\ UNCHANGED <<manager, websockets>>
    /\ RealTimeUnchanged

NextRealTime ==
    \/ WebsocketEndpoint
    \/ Connect
    \/ Disconnect
    \/ StartSimulation
    \/ SleepReturns
    \/ BroadcastReturns

SpecRealTime == InitRealTime /\ [][NextRealTime]_vars

\* The tasks inside the while loop of start_simulation.
RunningLoops == {t \in DOMAIN sim_tasks : sim_tasks[t] \in {"sleeping", "broadcasting"}}

\* C30: for every interleaving of connect and disconnect calls with the
\* sleeps of start_simulation, at most one simulation loop is running at any
\* time (so each connected client receives each simulated event once).
C30_AtMostOneSimulationLoop == Cardinality(RunningLoops) <= 1

\* The part that holds: the flag is set exactly while a client is connected.
SimulatingWhileConnected ==
    manager.is_simulating <=> (manager.active_connections # <<>>)

(***************************************************************************)
(* SpecService: the singleton AnalyticsService serving one request after   *)
(* another.  `transactions' is the stored data, `rule_heap' the rule       *)
(* objects the service created, `estimator' its causal estimator.          *)
(***************************************************************************)
MaxServiceCalls == 3

ServicePrice == [x |-> <<2, 1>>, y |-> <<4, 1>>, z |-> <<1, 1>>, w |-> <<3, 1>>, v |-> <<5, 1>>]

ServiceMargin == [x |-> <<1, 4>>, y |-> <<1, 2>>, z |-> <<1, 5>>, w |-> <<1, 10>>, v |-> <<3, 10>>]

\* One joined row of the stored data.
StoredRow(tid, item, store) ==
    [transaction_id          |-> tid,
     item_id                 |-> Some(item),
     store_id                |-> Some(store),
     context_time_bin        |-> Some("morning"),
     context_weekday_weekend |-> Some("weekday"),
     context_quarter         |-> Some(1),
     context_festival        |-> None,
     price                   |-> ServicePrice[item],
     margin_pct              |-> Some(ServiceMargin[item])]

\* The stored data: five baskets x, y of store S1 and five baskets w, v of
\* store S2.
StoredData ==
    SetToBag({StoredRow(tid, item, "S1") : tid \in 1..5, item \in {"x", "y"}}
             \union
             {StoredRow(tid, item, "S2") : tid \in 6..10, item \in {"w", "v"}})

\* The rows of an uploaded file: two more baskets w, v of store S2.
UploadedRows == SetToBag({StoredRow(tid, item, "S2") : tid \in 11..12, item \in {"w", "v"}})

\* Stored data that yields more than ten rules: five baskets x, y, z of
\* store S1 and five baskets w of store S2.
RankedData ==
    SetToBag({StoredRow(tid, item, "S1") : tid \in 1..5, item \in {"x", "y", "z"}}
             \union
             {StoredRow(tid, "w", "S2") : tid \in 6..10})

UploadFiles ==
    {[outcome |-> o, rows |-> UploadedRows] : o \in {"imported", "failed", "raised"}}

ServiceFilters ==
    {RuleFilter(store, <<1, 2>>, <<3, 10>>, <<1, 1>>, request.limit, 5,
                request.include_causal, 0) :
        store \in {None, Some("S1")},
        request \in {[limit |-> 25, include_causal |-> TRUE],
                     [limit |-> 1, include_causal |-> FALSE]}}

MaintenanceRequests ==
    {MaintenanceActionRequest(TRUE, TRUE, FALSE, TRUE),
     MaintenanceActionRequest(TRUE, TRUE, TRUE, FALSE),
     MaintenanceActionRequest(TRUE, TRUE, FALSE, FALSE)}

ServiceWhatIfRequests ==
    {[antecedent |-> {"x"}, consequent |-> {"y"},
      context |-> ContextFilter(Some("S1"), None, None, None),
      anticipated_discount_pct |-> <<1, 10>>]}

\* The service object, read off the state.
Service == [rules_cache |-> rules_cache, heap |-> rule_heap, causal_estimator |-> estimator]

CallNumber == IF service_call = None THEN 0 ELSE service_call[1].number

CallLog == IF service_call = None THEN <<>> ELSE service_call[1].log

\* The cache key a request looks up once its transactions are loaded, or
\* None when none matched and the handler returned before the lookup.
LookedUp(filters, key) ==
    IF AnalyticsService_load_transactions(transactions, filters) = EmptyBag
    THEN None ELSE Some(key)

\* The record of a call: the operation, its argument, the cache key it
\* looked up and whether the key was there, the ranked list it built and
\* the rules it handed to estimate_uplift.
ServiceCall(op, request, key, ranked, estimated) ==
    Some([op |-> op, request |-> request, key |-> key,
          hit |-> key # None /\ key[1] \in DOMAIN rules_cache,
          ranked |-> ranked, estimated |-> estimated,
          number |-> CallNumber + 1, log |-> Append(CallLog, op)])

InitService ==
    /\ pc = "input"
    /\ transactions = StoredData
    /\ min_rows = 0
    /\ max_depth = 0
    /\ segments = NoSegments
    /\ MineIdle
    /\ RuleIdle
    /\ ExtIdle

ServiceUnchanged ==
    UNCHANGED <<pc, min_rows, max_depth, segments, mineVars, ruleVars, raiseVars,
                input_rules, scored_rules, profit_result, diversity_result,
                uplift_call, uplift_result, experiment, learner_log,
                contextVars, realtimeVars, inflight>>

\* The state the service and the stored data are left in.
ServiceBecomes(self, db) ==
    /\ rules_cache' = self.rules_cache
    /\ rule_heap' = self.heap
    /\ estimator' = self.causal_estimator
    /\ transactions' = db

GetRules ==
    /\ CallNumber < MaxServiceCalls
    /\ \E filters \in ServiceFilters :
         LET call == AnalyticsService_get_rules(Service, transactions, filters)
         IN  /\ ServiceBecomes(call.self, transactions)
             /\ service_response' = Some(call.response)
             /\ service_call' = ServiceCall("get_rules", filters,
                    LookedUp(filters, AnalyticsService_rules_cache_key(filters)),
                    call.ranked, call.estimated)
    /\ ServiceUnchanged

GetBundles ==
    /\ CallNumber < MaxServiceCalls
    /\ \E filters \in ServiceFilters :
         LET call == AnalyticsService_get_bundles(Service, transactions, filters)
         IN  /\ ServiceBecomes(call.self, transactions)
             /\ service_response' = Some(call.response)
             /\ service_call' = ServiceCall("get_bundles", filters,
                    LookedUp(filters, AnalyticsService_bundles_cache_key(filters)),
                    call.ranked, call.estimated)
    /\ ServiceUnchanged

GetStats ==
    /\ CallNumber < MaxServiceCalls
    /\ LET call == AnalyticsService_get_stats(Service, transactions)
       IN  /\ ServiceBecomes(call.self, transactions)
           /\ service_response' = Some(call.response)
           /\ service_call' = ServiceCall("get_stats", None, None, <<>>, <<>>)
    /\ ServiceUnchanged

RunWhatIf ==
    /\ CallNumber < MaxServiceCalls
    /\ \E request \in ServiceWhatIfRequests :
         LET call == AnalyticsService_simulate_what_if(Service, transactions, request)
         IN  /\ ServiceBecomes(call.self, transactions)
             /\ service_response' = Some(call.response)
             /\ service_call' = ServiceCall("simulate_what_if", request, None, <<>>, <<>>)
    /\ ServiceUnchanged

ImportCsv ==
    /\ CallNumber < MaxServiceCalls
    /\ \E upload_file \in UploadFiles :
         LET call == AnalyticsService_import_csv(Service, transactions, upload_file)
         IN  /\ 11 \notin {r.transaction_id : r \in DOMAIN transactions}
             /\ ServiceBecomes(call.self, call.db)
             /\ service_response' = Some([raised |-> call.raised])
             /\ service_call' = ServiceCall("import_csv", upload_file, None, <<>>, <<>>)
    /\ ServiceUnchanged

ClearData ==
    /\ CallNumber < MaxServiceCalls
    /\ \E request \in MaintenanceRequests :
         LET call == AnalyticsService_clear_data(Service, transactions, request)
         IN  /\ ServiceBecomes(call.self, call.db)
             /\ service_response' = Some(call.response)
             /\ service_call' = ServiceCall("clear_data", request, None, <<>>, <<>>)
    /\ ServiceUnchanged

ClearCache ==
    /\ CallNumber < MaxServiceCalls
    /\ ServiceBecomes(AnalyticsService_clear_cache(Service), transactions)
    /\ service_response' = None
    /\ service_call' = ServiceCall("clear_cache", None, None, <<>>, <<>>)
    /\ ServiceUnchanged

NextService ==
    \/ GetRules
    \/ GetBundles
    \/ GetStats
    \/ RunWhatIf
    \/ ImportCsv
    \/ ClearData
    \/ ClearCache

SpecService == InitService /\ [][NextService]_vars

(***************************************************************************)
(* The life of a cache entry.                                              *)
(***************************************************************************)
\* The call asked for the cache to be cleared.
ExplicitClear(call) ==
    \/ call.op = "clear_cache"
    \/ call.op = "clear_data" /\ call.request.clear_cache

\* The call was an import whose importer returned.
ImporterReturned(call) ==
    call.op = "import_csv" /\ call.request.outcome # "raised"

\* Every entry of the cache is still there, with the same list.
EntriesKept ==
    \A key \in DOMAIN rules_cache :
        key \in DOMAIN rules_cache' /\ rules_cache'[key] = rules_cache[key]

\* A request that found its key in the cache ranked rules of the stored list.
ServedFromEntry ==
    service_call'[1].hit =>
        Range(service_call'[1].ranked) \subseteq Range(rules_cache[service_call'[1].key[1]])

ServiceWithEmptyCache == [Service EXCEPT !.rules_cache = <<>>]

OnlyGetRules(log) == \A i \in DOMAIN log : log[i] = "get_rules"

\* C27: the rule cache is transparent.  For any sequence of get_rules
\* requests over unchanged stored data, each response equals the response
\* the same request gets from a service whose cache is empty: the rules
\* served were mined from the transactions selected by the request's own
\* context filters, never from those of an earlier request with other
\* filters.
C27_CacheIsTransparent ==
    [][OnlyGetRules(service_call'[1].log) =>
          service_response'[1] =
             AnalyticsService_get_rules(ServiceWithEmptyCache, transactions,
                                        service_call'[1].request).response]_vars

\* What holds: a request is answered as by an empty cache when no earlier
\* request with the same mining parameters had other context filters.
SameFiltersTransparent ==
    [][( /\ OnlyGetRules(service_call'[1].log)
         /\ service_call # None
         /\ service_call[1].request.store_id = service_call'[1].request.store_id
         /\ service_call[1].number = 1 ) =>
          service_response'[1] =
             AnalyticsService_get_rules(ServiceWithEmptyCache, transactions,
                                        service_call'[1].request).response]_vars

(***************************************************************************)
(* Requests over a ranked list longer than ten rules.                      *)
(*                                                                         *)
(* The stored data is RankedData: twelve rules pass the filters, so that   *)
(* a request with a limit above ten returns rules beyond position ten.     *)
(***************************************************************************)
MaxRankedCalls == 2

RankedFilters ==
    {RuleFilter(store, <<1, 2>>, <<3, 10>>, <<1, 1>>, limit, 5, include_causal, 0) :
        store \in {None, Some("S1")}, limit \in {25, 11, 3},
        include_causal \in BOOLEAN}

InitTopN ==
    /\ pc = "input"
    /\ transactions = RankedData
    /\ min_rows = 0
    /\ max_depth = 0
    /\ segments = NoSegments
    /\ MineIdle
    /\ RuleIdle
    /\ ExtIdle

GetRankedRules ==
    /\ CallNumber < MaxRankedCalls
    /\ \E filters \in RankedFilters :
         LET call == AnalyticsService_get_rules(Service, transactions, filters)
         IN  /\ ServiceBecomes(call.self, transactions)
             /\ service_response' = Some(call.response)
             /\ service_call' = ServiceCall("get_rules", filters,
                    LookedUp(filters, AnalyticsService_rules_cache_key(filters)),
                    call.ranked, call.estimated)
    /\ ServiceUnchanged

GetRankedBundles ==
    /\ CallNumber < MaxRankedCalls
    /\ \E filters \in RankedFilters :
         LET call == AnalyticsService_get_bundles(Service, transactions, filters)
         IN  /\ ServiceBecomes(call.self, transactions)
             /\ service_response' = Some(call.response)
             /\ service_call' = ServiceCall("get_bundles", filters,
                    LookedUp(filters, AnalyticsService_bundles_cache_key(filters)),
                    call.ranked, call.estimated)
    /\ ServiceUnchanged

NextTopN ==
    \/ GetRankedRules
    \/ GetRankedBundles

SpecTopN == InitTopN /\ [][NextTopN]_vars

\* The rule or bundle at position i of the response is the rule `object'.
ResponseIsOf(i, object) ==
    LET rule == rule_heap[object]
        item == service_response[1][i]
    IN  /\ item.context = rule.context
        /\ IF service_call[1].op = "get_rules"
           THEN item.antecedent = rule.antecedent /\ item.consequent = rule.consequent
           ELSE item.anchor_items = rule.antecedent
                /\ item.recommended_items = rule.consequent

\* C22: in every get_rules and get_bundles request, causal estimation runs
\* for at most 10 rules, and only for rules among the first 10 positions of
\* the score-ranked list; every other returned rule or bundle carries no
\* uplift, and with include_causal = false no rule is estimated.
C22_CausalEstimationTopTen ==
    (service_call # None /\ service_call[1].op \in {"get_rules", "get_bundles"}) =>
        LET call == service_call[1]
            response == service_response[1]
        IN  /\ Len(call.estimated) <= 10
            /\ \A e \in DOMAIN call.estimated :
                  \E position \in 1..Min(10, Len(call.ranked)) :
                      call.ranked[position] = call.estimated[e]
            /\ \A i \in DOMAIN response :
                  response[i].uplift # None =>
                      \E e \in DOMAIN call.estimated : ResponseIsOf(i, call.estimated[e])
            /\ ~call.request.include_causal =>
                  /\ call.estimated = <<>>
                  /\ \A i \in DOMAIN response : response[i].uplift = None

\* A get_rules request with estimation that returned twelve rules: ten of
\* them were estimated, the eleventh carries no uplift.
C22_Witness ==
    /\ service_call # None
    /\ service_call[1].op = "get_rules"
    /\ service_call[1].request.include_causal
    /\ Len(service_response[1]) = 12
    /\ Len(service_call[1].estimated) = 10
    /\ service_response[1][10].uplift # None
    /\ service_response[1][11].uplift = None

(***************************************************************************)
(* Two requests served at once.                                            *)
(*                                                                         *)
(* The routes get_rules and get_bundles are plain `def' functions: the     *)
(* framework runs each request in a worker thread, all of them on the one  *)
(* AnalyticsService that get_analytics_service returns.  A request is      *)
(* modelled in three steps, between which the other request may run: it    *)
(* loads its transactions and takes the rules of its cache key (mining and *)
(* storing them on a miss), it has score_rules write the scores onto the   *)
(* rule objects and sort them, and it builds its response from the         *)
(* objects.  The threads may be switched at many more places; these three  *)
(* steps are among the schedules the program has.                          *)
(***************************************************************************)
MaxRequests == 2

ConcurrentFilters ==
    {RuleFilter(store, <<1, 2>>, <<3, 10>>, <<1, 1>>, 25, 5, include_causal, 0) :
        store \in {None, Some("S1")}, include_causal \in {FALSE}}

RequestOps == {"get_rules", "get_bundles"}

InitConcurrent == InitService

ConcurrentUnchanged ==
    UNCHANGED <<pc, min_rows, max_depth, segments, mineVars, ruleVars, raiseVars,
                input_rules, scored_rules, profit_result, diversity_result,
                uplift_call, uplift_result, experiment, learner_log,
                contextVars, realtimeVars, service_call, service_response>>

RequestKey(request) ==
    IF request.op = "get_rules"
    THEN AnalyticsService_rules_cache_key(request.filters)
    ELSE AnalyticsService_bundles_cache_key(request.filters)

\* The response of the request had it been served with no other request
\* running, by the service as it was when the request began.
AloneResponse(request) ==
    IF request.op = "get_rules"
    THEN AnalyticsService_get_rules(request.began_with, transactions,
                                    request.filters).response
    ELSE AnalyticsService_get_bundles(request.began_with, transactions,
                                      request.filters).response

\* The route is called: a worker thread takes the request.
RouteCalled ==
    /\ Len(inflight) < MaxRequests
    /\ \E op \in RequestOps, filters \in ConcurrentFilters :
         inflight' = Append(inflight,
                            [op |-> op, filters |-> filters, at |-> "called",
                             began_with |-> None, rules |-> <<>>,
                             scored_rules |-> <<>>, response |-> <<>>])
    /\ UNCHANGED <<transactions, rules_cache, rule_heap, estimator>>
    /\ ConcurrentUnchanged

\* _load_transactions, the cache lookup (mining on a miss) and the lift
\* filter; a handler with no transactions or no rules returns [] here.
LoadAndLookUpStep(i) ==
    /\ inflight[i].at = "called"
    /\ LET request  == inflight[i]
           filters  == request.filters
           loaded   == AnalyticsService_load_transactions(transactions, filters)
           looked   == AnalyticsService_cached_or_mined(
                           Service, RequestKey(request), loaded,
                           IF request.op = "get_rules" THEN filters.min_support
                           ELSE RatMax(filters.min_support, <<1, 20>>),
                           filters.min_confidence, filters.min_rows_per_context,
                           IF request.op = "get_rules" THEN filters.max_depth ELSE 0)
           passing  == IF request.op = "get_rules"
                       THEN AnalyticsService_candidates(looked.self.heap, looked.rules,
                                                        filters)
                       ELSE SelectSeq(looked.rules,
                                LAMBDA o : RatGeq(looked.self.heap[o].lift,
                                                  filters.min_lift))
       IN  IF loaded = EmptyBag
           THEN /\ inflight' = [inflight EXCEPT ![i].at = "done",
                                                ![i].began_with = Service]
                /\ UNCHANGED <<rules_cache, rule_heap>>
           ELSE /\ rules_cache' = looked.self.rules_cache
                /\ rule_heap' = looked.self.heap
                /\ inflight' = [inflight EXCEPT
                                   ![i].at = IF passing = <<>> THEN "done" ELSE "looked up",
                                   ![i].began_with = Service,
                                   ![i].rules = passing]
    /\ UNCHANGED <<transactions, estimator>>
    /\ ConcurrentUnchanged

\* self.scorer.score_rules(rules, transactions)
ScoreCandidatesStep(i) ==
    /\ inflight[i].at = "looked up"
    /\ LET request == inflight[i]
           loaded  == AnalyticsService_load_transactions(transactions, request.filters)
           scored  == AnalyticsService_score(Service, request.rules, loaded)
       IN  /\ rule_heap' = scored.self.heap
           /\ inflight' = [inflight EXCEPT ![i].at = "scored",
                                           ![i].scored_rules = scored.scored_rules]
    /\ UNCHANGED <<transactions, rules_cache, estimator>>
    /\ ConcurrentUnchanged

\* The uplift estimates and the responses built from the rule objects.
BuildResponseStep(i) ==
    /\ inflight[i].at = "scored"
    /\ LET request == inflight[i]
           filters == request.filters
           loaded  == AnalyticsService_load_transactions(transactions, filters)
           built   == IF request.op = "get_rules"
                      THEN AnalyticsService_rule_responses(
                               Service, request.scored_rules, loaded, filters)
                      ELSE AnalyticsService_bundle_responses(
                               Service,
                               SubSeq(request.scored_rules, 1,
                                      Min(filters.limit, Len(request.scored_rules))),
                               loaded, filters)
       IN  /\ estimator' = built.self.causal_estimator
           /\ inflight' = [inflight EXCEPT ![i].at = "done",
                                           ![i].response = built.response]
    /\ UNCHANGED <<transactions, rules_cache, rule_heap>>
    /\ ConcurrentUnchanged

LoadAndLookUp == \E i \in DOMAIN inflight : LoadAndLookUpStep(i)

ScoreCandidates == \E i \in DOMAIN inflight : ScoreCandidatesStep(i)

BuildResponse == \E i \in DOMAIN inflight : BuildResponseStep(i)

NextConcurrent ==
    \/ RouteCalled
    \/ LoadAndLookUp
    \/ ScoreCandidates
    \/ BuildResponse

SpecConcurrent == InitConcurrent /\ [][NextConcurrent]_vars

ScoresDescending(response) ==
    \A j, k \in DOMAIN response :
        j < k => RatGeq(response[j].overall_score[1], response[k].overall_score[1])

\* C28: when two get_rules or get_bundles requests run concurrently on the
\* singleton AnalyticsService, each returns the response it would return
\* if it ran alone: no request reads a profit_score, diversity_score or
\* overall_score that the other request wrote onto a shared cached rule
\* object, and the ranking each returns is sorted by its own scores.
C28_ConcurrentRequestsAsAlone ==
    \A i \in DOMAIN inflight :
        inflight[i].at = "done" =>
            inflight[i].response = AloneResponse(inflight[i])

\* The same for the order alone: a get_rules response is in descending
\* order of the overall scores it carries.
ConcurrentRankingSorted ==
    \A i \in DOMAIN inflight :
        (inflight[i].at = "done" /\ inflight[i].op = "get_rules") =>
            ScoresDescending(inflight[i].response)

\* What holds: two requests that select the same transactions write the
\* same scores, and each is answered as if alone.
SameSelectionAsAlone ==
    (\A i, j \in DOMAIN inflight :
        inflight[i].filters.store_id = inflight[j].filters.store_id) =>
        \A i \in DOMAIN inflight :
            inflight[i].at = "done" =>
                inflight[i].response = AloneResponse(inflight[i])

====
